---- MODULE Spec2Model ----
(***************************************************************************)
(* renderkit: dependency graph, lazy requirement discovery, pruning, plan  *)
(* compilation and the sequential plan executor with its directive         *)
(* evaluator.                                                              *)
(*                                                                         *)
(* Text is a sequence of characters.  Key paths and values are text, so    *)
(* startswith / endswith / split / f-string joins are computed on the      *)
(* characters.  "F" stands for the seven characters "file://".  The        *)
(* template alphabet is data plus {{ name(.name)* }} expressions.          *)
(***************************************************************************)
EXTENDS Integers, Sequences, FiniteSets, TLC

(***************************************************************************)
(* Text helpers (Python str operations).                                   *)
(***************************************************************************)
Letters == {"a", "b", "c", "l", "h", "s", "t", "o", "z", "N", "M"}

startswith(s, p) == Len(p) <= Len(s) /\ SubSeq(s, 1, Len(p)) = p

endswith(s, p) == Len(p) <= Len(s) /\ SubSeq(s, Len(s) - Len(p) + 1, Len(s)) = p

Tail1(s) == SubSeq(s, 2, Len(s))

\* "x in s" for a two-character needle
contains2(s, c1, c2) == \E i \in 1..(Len(s) - 1) : s[i] = c1 /\ s[i + 1] = c2

\* mutant: only the opening delimiter is looked for
HasOpenDelimiter(s) == contains2(s, "{", "{")

HasDelimiter(s) == contains2(s, "{", "{") \/ contains2(s, "}", "}")

RECURSIVE lstrip(_, _)
lstrip(s, c) == IF s # <<>> /\ s[1] = c THEN lstrip(Tail1(s), c) ELSE s

\* f"{parent}.{k}" if parent else k
JoinKey(parent, k) == IF parent = <<>> THEN k ELSE parent \o <<".">> \o k

\* key_path.split('.')
RECURSIVE split(_)
split(s) ==
    IF \E i \in 1..Len(s) : s[i] = "."
    THEN LET i == CHOOSE j \in 1..Len(s) : s[j] = "." /\ \A k \in 1..(j - 1) : s[k] # "."
         IN  <<SubSeq(s, 1, i - 1)>> \o split(SubSeq(s, i + 1, Len(s)))
    ELSE <<s>>

RECURSIVE ConcatAll(_)
ConcatAll(ss) == IF ss = <<>> THEN <<>> ELSE ss[1] \o ConcatAll(Tail(ss))

\* A set of texts as a sequence in a fixed order (dict iteration order).
RECURSIVE SetToSeq(_)
SetToSeq(S) ==
    IF S = {} THEN <<>>
    ELSE LET x == CHOOSE y \in S : TRUE IN <<x>> \o SetToSeq(S \ {x})

(***************************************************************************)
(* Values: a Python str, a non-string scalar (kept with its str() form),   *)
(* or a dict from names to values.                                         *)
(***************************************************************************)
Str(s) == [t |-> "str", s |-> s]

Scalar(s) == [t |-> "int", s |-> s]

Dict(f) == [t |-> "dict", d |-> f]

IsStr(v) == v.t = "str"

IsDict(v) == v.t = "dict"

EmptyDict == Dict([n \in {} |-> Str(<<>>)])

Has(dv, n) == n \in DOMAIN dv.d

(***************************************************************************)
(* Jinja2: static parse of a template source.                              *)
(***************************************************************************)
\* last index of the identifier starting at i (i - 1 when there is none)
NameEnd(src, i) ==
    CHOOSE j \in (i - 1)..Len(src) :
        /\ \A k \in i..j : src[k] \in Letters
        /\ (j = Len(src) \/ src[j + 1] \notin Letters)

\* after a name inside {{ }}: ".name" repeated, then "}}"
RECURSIVE AttrChain(_, _, _)
AttrChain(src, i, path) ==
    IF i <= Len(src) /\ src[i] = "."
    THEN LET e == NameEnd(src, i + 1)
         IN  IF e < i + 1 THEN [ok |-> FALSE, path |-> path, next |-> i]
             ELSE AttrChain(src, e + 1, Append(path, SubSeq(src, i + 1, e)))
    ELSE IF i + 1 <= Len(src) /\ src[i] = "}" /\ src[i + 1] = "}"
         THEN [ok |-> TRUE, path |-> path, next |-> i + 2]
         ELSE [ok |-> FALSE, path |-> path, next |-> i]

\* Environment.parse: the parts of the template, or a TemplateSyntaxError.  '{%' opens
\* a statement; no text over this alphabet is a tag the parser knows, so it raises
RECURSIVE ParseFrom(_, _, _)
ParseFrom(src, i, acc) ==
    IF i > Len(src) THEN [ok |-> TRUE, parts |-> acc]
    ELSE IF i + 1 <= Len(src) /\ src[i] = "{" /\ src[i + 1] = "{"
    THEN LET e == NameEnd(src, i + 2)
         IN  IF e < i + 2 THEN [ok |-> FALSE, parts |-> acc]
             ELSE LET r == AttrChain(src, e + 1, <<SubSeq(src, i + 2, e)>>)
                  IN  IF r.ok
                      THEN ParseFrom(src, r.next, Append(acc, [k |-> "expr", path |-> r.path]))
                      ELSE [ok |-> FALSE, parts |-> acc]
    ELSE IF i + 1 <= Len(src) /\ src[i] = "{" /\ src[i + 1] = "%"
    THEN [ok |-> FALSE, parts |-> acc]
    ELSE ParseFrom(src, i + 1, Append(acc, [k |-> "data", path |-> <<<<src[i]>>>>]))

parse(src) == ParseFrom(src, 1, <<>>)

\* meta.find_undeclared_variables
find_undeclared_variables(ast) ==
    {ast.parts[i].path[1] : i \in {j \in 1..Len(ast.parts) : ast.parts[j].k = "expr"}}

(***************************************************************************)
(* graph.py: nodes and dependency edges.                                   *)
(***************************************************************************)
Node(key_path, raw_value, dependencies, namespace) ==
    [key_path |-> key_path, raw_value |-> raw_value,
     dependencies |-> dependencies, namespace |-> namespace]

\* (key_path, value, namespace) for every leaf; the namespace is fixed at the top level
RECURSIVE _flatten_dict(_, _, _)
_flatten_dict(d, parent_key, namespace) ==
    UNION { LET new_key == JoinKey(parent_key, k)
                current_ns == IF parent_key = <<>> THEN k ELSE namespace
                v == d.d[k]
            IN  IF IsDict(v) THEN _flatten_dict(v, new_key, current_ns)
                ELSE {<<new_key, v, current_ns>>}
            : k \in DOMAIN d.d }

\* template source of a string leaf: one leading '$' stripped
TemplateSrc(raw) == IF startswith(raw.s, <<"$">>) THEN Tail1(raw.s) ELSE raw.s

\* mutant: every category that matches adds its keys
ResolveVarAllCategories(var, namespace, all_keys) ==
    {key \in all_keys :
        \/ namespace # <<>> /\ key = namespace \o <<".">> \o var
        \/ key = var
        \/ startswith(key, var \o <<".">>)}

\* mutant: the lookup among the top-level keys is missing
ResolveVarNoGlobal(var, namespace, all_keys) ==
    LET sibling == namespace \o <<".">> \o var
    IN  IF namespace # <<>> /\ sibling \in all_keys THEN {sibling}
        ELSE {key \in all_keys : startswith(key, var \o <<".">>)}

\* the keys one free identifier resolves to, first matching category only
ResolveVar(var, namespace, all_keys) ==
    LET sibling == namespace \o <<".">> \o var
    IN  IF namespace # <<>> /\ sibling \in all_keys THEN {sibling}
        ELSE IF var \in all_keys THEN {var}
        ELSE {key \in all_keys : startswith(key, var \o <<".">>)}

NodeDependencies(raw_value, namespace, all_keys) ==
    IF ~IsStr(raw_value) THEN {}
    ELSE LET ast == parse(TemplateSrc(raw_value))
         IN  IF ~ast.ok THEN {}
             ELSE UNION {ResolveVar(var, namespace, all_keys) :
                             var \in find_undeclared_variables(ast)}

\* DependencyGraph.build: self.nodes as a function key_path -> Node
build(context) ==
    LET flat_items == _flatten_dict(context, <<>>, <<>>)
        all_keys == {it[1] : it \in flat_items}
    IN  [key \in all_keys |->
            LET it == CHOOSE x \in flat_items : x[1] = key
            IN  Node(key, it[2], NodeDependencies(it[2], it[3], all_keys), it[3])]

(***************************************************************************)
(* Jinja2: rendering against a scope (a dict value).                       *)
(***************************************************************************)
Undefined == [t |-> "undef", s |-> <<>>]

\* Python repr of a value inside a printed dict
RECURSIVE repr(_)
RECURSIVE ReprEntries(_, _)
ReprEntries(dv, names) ==
    IF names = <<>> THEN <<>>
    ELSE <<"'">> \o names[1] \o <<"'", ":">> \o repr(dv.d[names[1]])
         \o (IF Len(names) > 1 THEN <<",">> ELSE <<>>) \o ReprEntries(dv, Tail(names))

repr(v) ==
    IF v.t = "dict" THEN <<"{">> \o ReprEntries(v, SetToSeq(DOMAIN v.d)) \o <<"}">>
    ELSE IF v.t = "str" THEN <<"'">> \o v.s \o <<"'">>
    ELSE v.s

\* str(value) as the template prints it; Undefined prints as the empty string
to_string(v) == IF v.t = "dict" THEN repr(v) ELSE v.s

\* Environment.getattr: obj[attribute] for a dict, Undefined for anything else
getattr(obj, attribute) ==
    IF obj.t = "dict" /\ Has(obj, attribute) THEN obj.d[attribute] ELSE Undefined

\* value of name.attr.attr...; raised: attribute access on Undefined (UndefinedError)
RECURSIVE EvalAttrs(_, _, _)
EvalAttrs(obj, path, i) ==
    IF i > Len(path) THEN [raised |-> FALSE, v |-> obj]
    ELSE IF obj.t = "undef" THEN [raised |-> TRUE, v |-> obj]
    ELSE EvalAttrs(getattr(obj, path[i]), path, i + 1)

EvalExpr(path, scope) ==
    EvalAttrs(IF Has(scope, path[1]) THEN scope.d[path[1]] ELSE Undefined, path, 2)

PartRaises(part, scope) == part.k = "expr" /\ EvalExpr(part.path, scope).raised

PartOut(part, scope) ==
    IF part.k = "data" THEN part.path[1] ELSE to_string(EvalExpr(part.path, scope).v)

\* env.from_string(src).render(scope): ok = FALSE when it raises
render(src, scope) ==
    LET ast == parse(src)
    IN  IF ~ast.ok \/ \E i \in 1..Len(ast.parts) : PartRaises(ast.parts[i], scope)
        THEN [ok |-> FALSE, out |-> <<>>]
        ELSE [ok |-> TRUE,
              out |-> ConcatAll([i \in 1..Len(ast.parts) |-> PartOut(ast.parts[i], scope)])]

\* context.copy() then context.update(context[ns]) when ns names a dict
InjectScope(context, ns) ==
    IF ns # <<>> /\ Has(context, ns) /\ IsDict(context.d[ns])
    THEN Dict(context.d[ns].d @@ context.d)
    ELSE context

(***************************************************************************)
(* tracker.py: the recording proxies of the dry run.  An object of the dry *)
(* run is a TrackingDict (td, with its prefix), a MagicDummy (dummy, with  *)
(* its path), a literal, or a SilentUndefined.                             *)
(***************************************************************************)
TD(prefix, dv) == [o |-> "td", path |-> prefix, v |-> dv]

MagicDummy(path) == [o |-> "dummy", path |-> path, v |-> Undefined]

Literal(v) == [o |-> "lit", path |-> <<>>, v |-> v]

SilentUndefined == [o |-> "undef", path |-> <<>>, v |-> Undefined]

\* mutant: a stored '$' value is returned as it is
TrackingDict_getitem_no_dummy(self, key) ==
    LET full_path == JoinKey(self.path, key)
    IN  IF Has(self.v, key)
        THEN LET val == self.v.d[key]
             IN  IF IsDict(val) THEN TD(full_path, val) ELSE Literal(val)
        ELSE MagicDummy(full_path)

\* TrackingDict.__getitem__ : the object returned
TrackingDict_getitem(self, key) ==
    LET full_path == JoinKey(self.path, key)
    IN  IF Has(self.v, key)
        THEN LET val == self.v.d[key]
             IN  IF IsDict(val) THEN TD(full_path, val)
                 ELSE IF IsStr(val) /\ startswith(val.s, <<"$">>) THEN MagicDummy(full_path)
                 ELSE Literal(val)
        ELSE MagicDummy(full_path)

\* mutant: the TrackingDict has no tracker, its lookups are not recorded
ProbeGetattrNoTracker(obj, name) ==
    IF obj.o = "td"
    THEN [obj |-> TrackingDict_getitem(obj, name), rec |-> {}]
    ELSE IF obj.o = "dummy"
    THEN [obj |-> MagicDummy(obj.path \o <<".">> \o name),
          rec |-> {obj.path \o <<".">> \o name}]
    ELSE [obj |-> SilentUndefined, rec |-> {}]

\* one attribute access of the dry run: the object returned and the paths recorded
ProbeGetattr(obj, name) ==
    IF obj.o = "td"
    THEN [obj |-> TrackingDict_getitem(obj, name), rec |-> {JoinKey(obj.path, name)}]
    ELSE IF obj.o = "dummy"
    THEN [obj |-> MagicDummy(obj.path \o <<".">> \o name),
          rec |-> {obj.path \o <<".">> \o name}]
    ELSE [obj |-> SilentUndefined, rec |-> {}]

RECURSIVE ProbeAttrs(_, _, _)
ProbeAttrs(obj, path, i) ==
    IF i > Len(path) THEN {}
    ELSE LET r == ProbeGetattr(obj, path[i])
         IN  r.rec \cup ProbeAttrs(r.obj, path, i + 1)

\* a top-level entry of the plain-dict copy of the tracking context: nested dicts are
\* TrackingDicts, everything else is the stored value itself (no __getitem__ call)
TopObject(raw_context, prefix, name) ==
    LET dv == IF prefix = <<>> THEN raw_context ELSE raw_context.d[prefix]
    IN  IF IsDict(dv.d[name]) THEN TD(JoinKey(prefix, name), dv.d[name])
        ELSE Literal(dv.d[name])

\* render_ctx of the dry run: tracking_context.copy(), updated with the scope's entries
ProbeRoot(raw_context, tmpl_scope, name) ==
    IF tmpl_scope # <<>> /\ Has(raw_context, tmpl_scope)
       /\ IsDict(raw_context.d[tmpl_scope]) /\ Has(raw_context.d[tmpl_scope], name)
    THEN TopObject(raw_context, tmpl_scope, name)
    ELSE IF Has(raw_context, name) THEN TopObject(raw_context, <<>>, name)
    ELSE SilentUndefined

\* cli.render, dependency discovery of one template: static identifiers and the
\* paths the dry run records; a template that does not parse contributes nothing
discover(content, tmpl_scope, raw_context) ==
    LET ast == parse(content)
    IN  IF ~ast.ok THEN {}
        ELSE find_undeclared_variables(ast)
             \cup UNION {ProbeAttrs(ProbeRoot(raw_context, tmpl_scope, ast.parts[i].path[1]),
                                    ast.parts[i].path, 2)
                         : i \in {j \in 1..Len(ast.parts) : ast.parts[j].k = "expr"}}

\* mutant: no pruning, the parent paths stay in the requirement set
prune_parents_keep_all(raw_vars) == raw_vars

\* mutant: any other path that begins with the path's text makes it a parent
prune_parents_no_dot(raw_vars) ==
    {var \in raw_vars : ~\E other \in raw_vars : other # var /\ startswith(other, var)}

\* cli.render, pruning: drop a path that is a parent of another accessed path
prune_parents(raw_vars) ==
    {var \in raw_vars : ~\E other \in raw_vars : startswith(other, var \o <<".">>)}

(***************************************************************************)
(* graph.py: required subgraph and execution plan.                         *)
(***************************************************************************)
\* mutant: only the exact match, a requested namespace selects nothing
initial_nodes_exact_only(nodes, target_keys) ==
    {node_key \in DOMAIN nodes : \E req \in target_keys : req = node_key}

\* mutant: the namespace (prefix) match is missing
initial_nodes_no_prefix(nodes, target_keys) ==
    {node_key \in DOMAIN nodes :
        \E req \in target_keys :
            req = node_key \/ endswith(node_key, <<".">> \o req)}

initial_nodes(nodes, target_keys) ==
    {node_key \in DOMAIN nodes :
        \E req \in target_keys :
            \/ req = node_key
            \/ startswith(node_key, req \o <<".">>)
            \/ endswith(node_key, <<".">> \o req)}

\* mutant: no walk, the initial nodes are the result
ReachSeedsOnly(nodes, visited) == visited

\* mutant: the walk stops at the dependencies of the initial nodes
ReachOneStep(nodes, visited) ==
    visited \cup UNION {IF k \in DOMAIN nodes THEN nodes[k].dependencies ELSE {} : k \in visited}

\* the walk over dependency edges from the initial nodes, to fixpoint
RECURSIVE Reach(_, _)
Reach(nodes, visited) ==
    LET more == UNION {IF k \in DOMAIN nodes THEN nodes[k].dependencies ELSE {} : k \in visited}
    IN  IF more \subseteq visited THEN visited ELSE Reach(nodes, visited \cup more)

\* mutant: no requested path selects no node
_get_required_subgraph_nothing_requested(nodes, target_keys) ==
    Reach(nodes, initial_nodes(nodes, target_keys))

_get_required_subgraph(nodes, target_keys) ==
    IF target_keys = {} THEN DOMAIN nodes
    ELSE Reach(nodes, initial_nodes(nodes, target_keys))

\* mutant: a node's dependency on itself is not handed to the sorter
RestrictedDepsNoSelf(nodes, relevant_keys, key) ==
    {d \in nodes[key].dependencies : d \in relevant_keys /\ d # key}

\* the dependencies handed to the sorter: only those in relevant_keys
RestrictedDeps(nodes, relevant_keys, key) ==
    {d \in nodes[key].dependencies : d \in relevant_keys}

\* mutant: the sorter is given every node of the graph, relevant or not
CyclesWholeGraph(nodes, relevant_keys) ==
    {c \in UNION {[1..m -> DOMAIN nodes] : m \in 2..(Cardinality(DOMAIN nodes) + 1)} :
        /\ c[1] = c[Len(c)]
        /\ \A i, j \in 1..(Len(c) - 1) : i # j => c[i] # c[j]
        /\ \A i \in 1..(Len(c) - 1) : c[i] \in nodes[c[i + 1]].dependencies}

\* graphlib: a cycle [n0, ..., n0], every node a predecessor of the next one
Cycles(nodes, relevant_keys) ==
    {c \in UNION {[1..m -> relevant_keys] : m \in 2..(Cardinality(relevant_keys) + 1)} :
        /\ c[1] = c[Len(c)]
        /\ \A i, j \in 1..(Len(c) - 1) : i # j => c[i] # c[j]
        /\ \A i \in 1..(Len(c) - 1) : c[i] \in RestrictedDeps(nodes, relevant_keys, c[i + 1])}

\* graphlib: the generation of a node (length of the longest chain of predecessors)
RECURSIVE Generation(_, _, _, _)
Generation(nodes, relevant_keys, key, fuel) ==
    LET deps == RestrictedDeps(nodes, relevant_keys, key)
    IN  IF deps = {} \/ fuel = 0 THEN 0
        ELSE 1 + (CHOOSE g \in 0..fuel :
                    /\ \E d \in deps : Generation(nodes, relevant_keys, d, fuel - 1) = g
                    /\ \A d \in deps : Generation(nodes, relevant_keys, d, fuel - 1) <= g)

\* mutant: the edges handed to the sorter the wrong way round
StaticOrdersReversed(nodes, relevant_keys) ==
    LET n == Cardinality(relevant_keys)
        gen(k) == Generation(nodes, relevant_keys, k, n)
    IN  {p \in [1..n -> relevant_keys] :
            /\ \A i, j \in 1..n : i # j => p[i] # p[j]
            /\ \A i, j \in 1..n : i < j => gen(p[i]) >= gen(p[j])}

\* graphlib static_order: the ready nodes generation by generation; the order inside
\* a generation follows set iteration order, which is not fixed
StaticOrders(nodes, relevant_keys) ==
    LET n == Cardinality(relevant_keys)
        gen(k) == Generation(nodes, relevant_keys, k, n)
    IN  {p \in [1..n -> relevant_keys] :
            /\ \A i, j \in 1..n : i # j => p[i] # p[j]
            /\ \A i, j \in 1..n : i < j => gen(p[i]) <= gen(p[j])}

(***************************************************************************)
(* processor.py: the directive evaluator.                                  *)
(***************************************************************************)
ErrNoRepoRoot == <<"<", "R", ">">>

ErrFileNotFound == <<"<", "N", ">">>

ErrCommandFailed == <<"<", "C", ">">>

ExceptionText == <<"<", "x", ">">>

\* what the operating system answers when a file is read or a command is run
IO(kind, text) == [kind |-> kind, text |-> text]

NoEffect(result) == [result |-> result, reads |-> <<>>, shell |-> <<>>, raised |-> FALSE]

\* an exception leaves process_value: there is no result
Raises == [result |-> Undefined, reads |-> <<>>, shell |-> <<>>, raised |-> TRUE]

\* urlparse: the netloc of a URI runs from after '//' to the first '/'
RECURSIVE UrlNetloc(_)
UrlNetloc(rest) ==
    IF rest = <<>> \/ Head(rest) = "/" THEN <<>>
    ELSE <<Head(rest)>> \o UrlNetloc(Tail(rest))

\* urlparse raises ValueError (invalid IPv6 URL) on a netloc with one bracket only
UrlparseRaises(value) ==
    LET netloc == UrlNetloc(Tail1(value))
    IN  (\E i \in 1..Len(netloc) : netloc[i] = "[") # (\E i \in 1..Len(netloc) : netloc[i] = "]")

\* the path of a file:// URI: relative paths are taken under the working directory
FileUriPath(value) ==
    LET path_str == Tail1(value)
    IN  IF startswith(path_str, <<"/">>) THEN path_str ELSE <<"W", "/">> \o path_str

\* mutant: the leading slashes are kept
RepoPathNoStrip(value) == <<"R", "/">> \o Tail1(value)

\* repo_root / value[1:].lstrip('/')
RepoPath(value) == <<"R", "/">> \o lstrip(Tail1(value), "/")

ReadFile(path, io) ==
    [result |-> IF io.kind = "ok" THEN Str(io.text)
                ELSE IF io.kind = "raise" THEN Str(ExceptionText)
                ELSE Str(ErrFileNotFound),
     reads |-> <<path>>, shell |-> <<>>, raised |-> FALSE]

\* mutant: an output that begins with '!' is run as a command in its turn
RunCommandReinterpretsOutput(command, io) ==
    IF io.kind = "ok" /\ io.text # <<>> /\ io.text[1] = "!"
    THEN [result |-> Str(io.text), reads |-> <<>>,
          shell |-> <<command, Tail1(io.text)>>, raised |-> FALSE]
    ELSE [result |-> IF io.kind = "ok" THEN Str(io.text)
                     ELSE IF io.kind = "raise" THEN Str(ExceptionText)
                     ELSE Str(ErrCommandFailed),
          reads |-> <<>>, shell |-> <<command>>, raised |-> FALSE]

RunCommand(command, io) ==
    [result |-> IF io.kind = "ok" THEN Str(io.text)
                ELSE IF io.kind = "raise" THEN Str(ExceptionText)
                ELSE Str(ErrCommandFailed),
     reads |-> <<>>, shell |-> <<command>>, raised |-> FALSE]

\* process_value(key, value, repo_root): the result, the files it read and the
\* commands it ran; io is what the file system or the shell answers if asked
process_value(key, value, repo_root, io) ==
    IF ~IsStr(value) THEN NoEffect(value)
    ELSE IF HasDelimiter(value.s) THEN NoEffect(value)
    ELSE IF startswith(value.s, <<"F">>) /\ UrlparseRaises(value.s) THEN Raises
    ELSE IF startswith(value.s, <<"@">>) /\ ~repo_root THEN NoEffect(Str(ErrNoRepoRoot))
    ELSE IF startswith(value.s, <<"@">>) THEN ReadFile(RepoPath(value.s), io)
    ELSE IF startswith(value.s, <<"F">>) THEN ReadFile(FileUriPath(value.s), io)
    ELSE IF startswith(value.s, <<"!">>) THEN RunCommand(Tail1(value.s), io)
    ELSE NoEffect(value)

(***************************************************************************)
(* utils.py                                                                *)
(***************************************************************************)
\* set_nested_key on the key list; a non-dict on the way leaves d as it is
RECURSIVE SetKeys(_, _, _)
SetKeys(d, keys, value) ==
    IF Len(keys) = 1 THEN Dict((keys[1] :> value) @@ d.d)
    ELSE LET current_level == IF Has(d, keys[1]) THEN d.d[keys[1]] ELSE EmptyDict
         IN  IF ~IsDict(current_level) THEN d
             ELSE Dict((keys[1] :> SetKeys(current_level, Tail(keys), value)) @@ d.d)

set_nested_key(d, key_path, value) == SetKeys(d, split(key_path), value)

\* the value stored at a key path (Undefined when there is none)
RECURSIVE GetKeys(_, _)
GetKeys(d, keys) ==
    IF keys = <<>> THEN d
    ELSE IF d.t = "dict" /\ Has(d, keys[1]) THEN GetKeys(d.d[keys[1]], Tail(keys))
    ELSE Undefined

get_nested_key(d, key_path) == GetKeys(d, split(key_path))

(***************************************************************************)
(* processor.py: one iteration of PlanExecutor.execute.                    *)
(***************************************************************************)
IsMarked(v) == IsStr(v) /\ startswith(v.s, <<"$">>)

\* mutant: every string is rendered, marked or not
ValueToProcessAlwaysRendered(node, context) ==
    IF IsStr(node.raw_value)
    THEN LET template_src == TemplateSrc(node.raw_value)
             r == render(template_src, InjectScope(context, node.namespace))
         IN  IF r.ok THEN Str(r.out) ELSE Str(template_src)
    ELSE node.raw_value

\* mutant: when rendering raises the raw value is kept, marker included
ValueToProcessFallbackKeepsMarker(node, context) ==
    IF IsMarked(node.raw_value)
    THEN LET template_src == Tail1(node.raw_value.s)
             r == render(template_src, InjectScope(context, node.namespace))
         IN  IF r.ok THEN Str(r.out) ELSE node.raw_value
    ELSE node.raw_value

\* the string handed to process_value: the rendered template of a '$' value (the
\* marker-stripped source when rendering raises), the raw value otherwise
ValueToProcess(node, context) ==
    IF IsMarked(node.raw_value)
    THEN LET template_src == Tail1(node.raw_value.s)
             r == render(template_src, InjectScope(context, node.namespace))
         IN  IF r.ok THEN Str(r.out) ELSE Str(template_src)
    ELSE node.raw_value

\* env.from_string(template_src).render(render_ctx) raises for this node
RenderFails(node, context) ==
    /\ IsMarked(node.raw_value)
    /\ ~render(Tail1(node.raw_value.s), InjectScope(context, node.namespace)).ok

\* mutant: the result written at the last segment of the key path
WriteKeyLastSegment(node) == split(node.key_path)[Len(split(node.key_path))]

\* the key path the result is written at
WriteKey(node) == node.key_path

\* mutant: the value handed to process_value is written, not its result
ExecuteNodeWritesHanded(node, context, repo_root, io) ==
    LET value_to_process == ValueToProcess(node, context)
        pv == process_value(node.key_path, value_to_process, repo_root, io)
    IN  [context |-> set_nested_key(context, WriteKey(node), value_to_process),
         handed |-> value_to_process,
         failed |-> RenderFails(node, context),
         pv |-> pv]

\* render, process_value, set_nested_key for one node of the plan
ExecuteNode(node, context, repo_root, io) ==
    LET value_to_process == ValueToProcess(node, context)
        pv == process_value(node.key_path, value_to_process, repo_root, io)
    IN  [context |-> set_nested_key(context, WriteKey(node), pv.result),
         handed |-> value_to_process,
         failed |-> RenderFails(node, context),
         pv |-> pv]

\* initial_context.copy() is shallow: the nested dicts of the copy are the nested
\* dicts of the original, so a write below a top-level dict shows in both
SharedView(original, copy) ==
    Dict([k \in DOMAIN original.d |->
            IF IsDict(original.d[k]) /\ Has(copy, k) /\ IsDict(copy.d[k])
            THEN copy.d[k] ELSE original.d[k]])

(***************************************************************************)
(* The graph keys a node's template reads through its render scope.        *)
(***************************************************************************)
\* the context path an expression resolves to (<<>> when it resolves to nothing)
RECURSIVE ResolvedPath(_, _, _, _)
ResolvedPath(obj, at, path, i) ==
    IF i > Len(path) THEN at
    ELSE IF obj.t = "dict" /\ Has(obj, path[i])
    THEN ResolvedPath(obj.d[path[i]], at \o <<".">> \o path[i], path, i + 1)
    ELSE <<>>

ExprReadPath(path, context, ns) ==
    IF ns # <<>> /\ Has(context, ns) /\ IsDict(context.d[ns]) /\ Has(context.d[ns], path[1])
    THEN ResolvedPath(context.d[ns].d[path[1]], JoinKey(ns, path[1]), path, 2)
    ELSE IF Has(context, path[1])
    THEN ResolvedPath(context.d[path[1]], path[1], path, 2)
    ELSE <<>>

TemplateReads(node, context, keys) ==
    IF ~IsMarked(node.raw_value) THEN {}
    ELSE LET ast == parse(Tail1(node.raw_value.s))
         IN  IF ~render(Tail1(node.raw_value.s), InjectScope(context, node.namespace)).ok
             THEN {}
             ELSE {k \in keys :
                     \E i \in 1..Len(ast.parts) :
                        /\ ast.parts[i].k = "expr"
                        /\ LET at == ExprReadPath(ast.parts[i].path, context, node.namespace)
                           IN  at # <<>> /\ (k = at \/ startswith(k, at \o <<".">>))}

(***************************************************************************)
(* Documents, consumer templates and the answers of the operating system.  *)
(***************************************************************************)
MaxLeaves == 3

T(s) == Str(s)

\* values of root-level documents
FlatPool ==
    { T(<<"s">>),                                \* static text
      T(<<"{", "{", "z", "}", "}">>),            \* static text holding delimiters
      T(<<"$", "!", "t">>),                      \* command
      T(<<"$", "{", "{", "a", "}", "}">>),       \* reference to a
      T(<<"$", "!", "{", "{", "b", "}", "}">>),  \* command built from b
      T(<<"$", "{", "{", "a">>),                 \* template source that does not parse
      T(<<"!", "t">>),                           \* command without the marker
      T(<<"$", "@", "/", "t">>),                 \* file under repo_root
      T(<<"F", "[">>),                           \* file:// URI that urlparse rejects
      T(<<"$", "!", "t", "{", "%">>),            \* command followed by an unfinished statement
      Scalar(<<"7">>) }                          \* not a string

\* values of documents with namespaces
NsPool ==
    { T(<<"s">>),
      T(<<"$", "!", "t">>),
      T(<<"$", "{", "{", "h", "}", "}">>),            \* sibling, unqualified
      T(<<"$", "{", "{", "N", ".", "l", "}", "}">>),  \* a key of N, qualified
      T(<<"$", "!", "{", "{", "N", "}", "}">>) }      \* the whole namespace

\* values of documents with a mapping inside a namespace
NestedPool ==
    { T(<<"s">>),
      T(<<"$", "!", "t">>),
      T(<<"$", "{", "{", "s", ".", "h", "}", "}">>),
      T(<<"$", "{", "{", "s", "}", "}">>) }

FlatPaths == {<<"a">>, <<"b">>, <<"c">>}

NsPaths == {<<"N", ".", "l">>, <<"N", ".", "h">>, <<"M", ".", "h">>, <<"c">>}

NestedPaths == {<<"N", ".", "l">>, <<"N", ".", "s", ".", "h">>, <<"N", ".", "s", ".", "l">>}

\* the document holding the given leaves, built the way --set builds it
RECURSIVE DocFrom(_, _)
DocFrom(leaves, paths) ==
    IF paths = <<>> THEN EmptyDict
    ELSE set_nested_key(DocFrom(leaves, Tail(paths)), paths[1], leaves[paths[1]])

Docs(paths, pool) ==
    {DocFrom(f, SetToSeq(DOMAIN f)) :
        f \in UNION {[S -> pool] : S \in {X \in SUBSET paths : Cardinality(X) <= MaxLeaves}}}

FlatTemplates ==
    { <<>>,
      <<"{", "{", "a", "}", "}">>,
      <<"{", "{", "c", "}", "}">> }

NsTemplates ==
    { <<"{", "{", "N", ".", "l", "}", "}">>,
      <<"{", "{", "N", "}", "}">>,
      <<"{", "{", "N", "}", "}", "{", "{", "N", ".", "l", "}", "}">>,
      <<"{", "{", "N", "}", "}", "{", "{", "c", "}", "}">>,
      <<"{", "{", "h", "}", "}">>,
      <<"{", "{", "c", "}", "}">> }

NestedTemplates ==
    { <<"{", "{", "N", ".", "l", "}", "}">>,
      <<"{", "{", "N", "}", "}">>,
      <<"{", "{", "N", ".", "s", ".", "h", "}", "}">> }

Inputs ==
    [doc : Docs(FlatPaths, FlatPool), template : FlatTemplates,
     scope : {<<>>}, repo_root : BOOLEAN]
    \cup [doc : Docs(NsPaths, NsPool), template : NsTemplates,
          scope : {<<>>, <<"N">>}, repo_root : {TRUE}]
    \cup [doc : Docs(NestedPaths, NestedPool), template : NestedTemplates,
          scope : {<<>>}, repo_root : {TRUE}]

NoIO == IO("none", <<>>)

\* a file: its text, or not a file, or an error while reading
FileAnswers == {IO("ok", <<"o">>), IO("missing", <<>>), IO("raise", <<>>)}

\* a command: its trimmed output, a nonzero exit, or an error launching it
ShellAnswers == {IO("ok", <<"o">>), IO("ok", <<"!", "t">>), IO("fail", <<>>), IO("raise", <<>>)}

\* the answers possible for the value handed to process_value
Answers(value, repo_root) ==
    LET pv == process_value(<<>>, value, repo_root, NoIO)
    IN  IF pv.reads # <<>> THEN FileAnswers
        ELSE IF pv.shell # <<>> THEN ShellAnswers
        ELSE {NoIO}

(***************************************************************************)
(* The render pipeline as a state machine.                                 *)
(***************************************************************************)
VARIABLES
    raw_context,     \* the merged raw document (initial_context of execute)
    template,        \* the consumer template
    scope,           \* -s scope of the consumer template (<<>>: none)
    repo_root,       \* TRUE: repo_root is a directory; FALSE: None
    pc,              \* position in cli.render
    accessed_paths,  \* tracker.accessed_paths
    required_vars,   \* the pruned requirement set
    nodes,           \* DependencyGraph.nodes
    plan,            \* the key paths of the compiled plan, in order
    error,           \* the cycle named by the cycle error (<<>>: none)
    final_context,   \* PlanExecutor.final_context
    step,            \* number of plan nodes executed
    pv_calls,        \* history: the calls of process_value, in order
    shell_runs,      \* history: the commands run, in order
    file_reads,      \* history: the files read, in order
    writes,          \* history: the key paths written, in order
    render_reads,    \* history: the graph keys read while rendering a node's template
    loader,          \* the arguments and locals of load_and_process_configs (<<>>: not run)
    probe            \* an expression evaluated on the tracking context (<<>>: none)

vars == <<raw_context, template, scope, repo_root, pc, accessed_paths, required_vars,
          nodes, plan, error, final_context, step, pv_calls, shell_runs, file_reads,
          writes, render_reads, loader, probe>>

inputs == <<template, scope, repo_root, loader, probe>>

history == <<pv_calls, shell_runs, file_reads, writes, render_reads>>

Range(q) == {q[i] : i \in 1..Len(q)}

Init ==
    /\ \E in \in Inputs :
        /\ raw_context = in.doc
        /\ template = in.template
        /\ scope = in.scope
        /\ repo_root = in.repo_root
    /\ pc = "discover"
    /\ accessed_paths = {}
    /\ required_vars = {}
    /\ nodes = <<>>
    /\ plan = <<>>
    /\ error = <<>>
    /\ final_context = EmptyDict
    /\ step = 0
    /\ pv_calls = <<>>
    /\ shell_runs = <<>>
    /\ file_reads = <<>>
    /\ writes = <<>>
    /\ render_reads = {}
    /\ loader = <<>>
    /\ probe = <<>>

\* cli.render step 3: static analysis and dry run of the consumer template
Discover ==
    /\ pc = "discover"
    /\ accessed_paths' = discover(template, scope, raw_context)
    /\ pc' = "prune"
    /\ UNCHANGED <<raw_context, inputs, required_vars, nodes, plan, error, final_context,
                   step, history>>

\* cli.render: the pruning of parent paths
Prune ==
    /\ pc = "prune"
    /\ required_vars' = prune_parents(accessed_paths)
    /\ pc' = "build"
    /\ UNCHANGED <<raw_context, inputs, accessed_paths, nodes, plan, error, final_context,
                   step, history>>

\* execute_plan: graph.build(raw_context)
BuildGraph ==
    /\ pc = "build"
    /\ nodes' = build(raw_context)
    /\ pc' = "plan"
    /\ UNCHANGED <<raw_context, inputs, accessed_paths, required_vars, plan, error,
                   final_context, step, history>>

\* get_execution_plan returns a plan; execute starts on a copy of the raw document
CompilePlan ==
    /\ pc = "plan"
    /\ LET relevant_keys == _get_required_subgraph(nodes, required_vars)
       IN  /\ Cycles(nodes, relevant_keys) = {}
           /\ \E p \in StaticOrders(nodes, relevant_keys) : plan' = p
    /\ final_context' = raw_context
    /\ pc' = "execute"
    /\ UNCHANGED <<raw_context, inputs, accessed_paths, required_vars, nodes, error,
                   step, history>>

\* get_execution_plan raises the cycle error: nothing is executed
CycleError ==
    /\ pc = "plan"
    /\ LET relevant_keys == _get_required_subgraph(nodes, required_vars)
       IN  \E c \in Cycles(nodes, relevant_keys) : error' = c
    /\ pc' = "aborted"
    /\ UNCHANGED <<raw_context, inputs, accessed_paths, required_vars, nodes, plan,
                   final_context, step, history>>

\* one iteration of the loop of PlanExecutor.execute
ExecuteStep ==
    /\ pc = "execute"
    /\ step < Len(plan)
    /\ LET node == nodes[plan[step + 1]]
       IN  \E io \in Answers(ValueToProcess(node, final_context), repo_root) :
             LET x == ExecuteNode(node, final_context, repo_root, io)
             IN  /\ ~x.pv.raised
                 /\ final_context' = x.context
                 /\ raw_context' = SharedView(raw_context, x.context)
                 /\ pv_calls' = Append(pv_calls, [key |-> node.key_path, value |-> x.handed,
                                                  failed |-> x.failed,
                                                  result |-> x.pv.result,
                                                  shell |-> x.pv.shell, reads |-> x.pv.reads])
                 /\ shell_runs' = shell_runs \o x.pv.shell
                 /\ file_reads' = file_reads \o x.pv.reads
                 /\ writes' = IF x.context = final_context
                                 /\ get_nested_key(final_context, WriteKey(node)) # x.pv.result
                              THEN writes ELSE Append(writes, WriteKey(node))
                 /\ render_reads' = render_reads \cup
                        {[node |-> node.key_path, key |-> k,
                          done |-> k \in Range(writes), raw |-> nodes[k].raw_value]
                         : k \in TemplateReads(node, final_context, DOMAIN nodes)}
    /\ step' = step + 1
    /\ UNCHANGED <<inputs, pc, accessed_paths, required_vars, nodes, plan, error>>

\* process_value raises: the exception leaves execute, nothing is returned
ExecuteRaises ==
    /\ pc = "execute"
    /\ step < Len(plan)
    /\ LET node == nodes[plan[step + 1]]
       IN  ExecuteNode(node, final_context, repo_root, NoIO).pv.raised
    /\ pc' = "crashed"
    /\ UNCHANGED <<raw_context, inputs, accessed_paths, required_vars, nodes, plan, error,
                   final_context, step, history>>

\* execute returns final_context
Return ==
    /\ pc = "execute"
    /\ step = Len(plan)
    /\ pc' = "done"
    /\ UNCHANGED <<raw_context, inputs, accessed_paths, required_vars, nodes, plan, error,
                   final_context, step, history>>

Next ==
    \/ Discover \/ Prune \/ BuildGraph \/ CompilePlan \/ CycleError
    \/ ExecuteStep \/ ExecuteRaises \/ Return

Spec == Init /\ [][Next]_vars

(***************************************************************************)
(* process_value called on its own (as cli.render does on the final        *)
(* output): any text up to MaxLen characters, with and without repo_root.  *)
(***************************************************************************)
MaxLen == 4

PVChars == {"!", "@", "F", "{", "}", "/", "t", "["}

PVValues ==
    {Str(s) : s \in UNION {[1..n -> PVChars] : n \in 0..MaxLen}} \cup {Scalar(<<"7">>)}

PVKey == <<"k">>

InitPV ==
    /\ \E v \in PVValues : raw_context = Dict(PVKey :> v)
    /\ repo_root \in BOOLEAN
    /\ template = <<>>
    /\ scope = <<>>
    /\ pc = "call"
    /\ accessed_paths = {}
    /\ required_vars = {}
    /\ nodes = <<>>
    /\ plan = <<>>
    /\ error = <<>>
    /\ final_context = EmptyDict
    /\ step = 0
    /\ pv_calls = <<>>
    /\ shell_runs = <<>>
    /\ file_reads = <<>>
    /\ writes = <<>>
    /\ render_reads = {}
    /\ loader = <<>>
    /\ probe = <<>>

\* process_value(key, value, repo_root)
CallProcessValue ==
    /\ pc = "call"
    /\ LET value == raw_context.d[PVKey]
       IN  \E io \in Answers(value, repo_root) :
             LET pv == process_value(PVKey, value, repo_root, io)
             IN  /\ ~pv.raised
                 /\ pv_calls' = <<[key |-> PVKey, value |-> value, failed |-> FALSE,
                                   result |-> pv.result,
                                   shell |-> pv.shell, reads |-> pv.reads]>>
                 /\ shell_runs' = pv.shell
                 /\ file_reads' = pv.reads
    /\ pc' = "returned"
    /\ UNCHANGED <<raw_context, inputs, accessed_paths, required_vars, nodes, plan, error,
                   final_context, step, writes, render_reads>>

\* process_value(key, value, repo_root) raises
CallRaises ==
    /\ pc = "call"
    /\ process_value(PVKey, raw_context.d[PVKey], repo_root, NoIO).raised
    /\ pc' = "raised"
    /\ UNCHANGED <<raw_context, inputs, accessed_paths, required_vars, nodes, plan, error,
                   final_context, step, history>>

NextPV == CallProcessValue \/ CallRaises

SpecPV == InitPV /\ [][NextPV]_vars

(***************************************************************************)
(* config.py: load_and_process_configs up to the merged raw document.      *)
(* 'r' stands for the key repo_root, 'R' for the project root directory,   *)
(* 'O' for the -r directory, 'X' for a path that is no directory.          *)
(***************************************************************************)
List(items) == [t |-> "list", l |-> items]

IsList(v) == v.t = "list"

\* mutant: an entry already in destination is kept
deep_merge_dicts_keep_destination(source, destination) ==
    Dict(destination.d @@ source.d)

\* deep_merge_dicts(source, destination)
RECURSIVE deep_merge_dicts(_, _)
deep_merge_dicts(source, destination) ==
    Dict([key \in DOMAIN source.d \cup DOMAIN destination.d |->
            IF ~Has(source, key) THEN destination.d[key]
            ELSE IF IsDict(source.d[key]) /\ Has(destination, key) /\ IsDict(destination.d[key])
            THEN deep_merge_dicts(source.d[key], destination.d[key])
            ELSE source.d[key]])

\* the list format of a configuration file: items that are one-entry mappings, the
\* later item winning
RECURSIVE ListToDict(_)
ListToDict(items) ==
    IF items = <<>> THEN EmptyDict
    ELSE LET item == items[Len(items)]
             before == ListToDict(SubSeq(items, 1, Len(items) - 1))
         IN  IF IsDict(item) /\ Cardinality(DOMAIN item.d) = 1
             THEN Dict(item.d @@ before.d) ELSE before

\* for item in override_ns: a mapping is iterated by its keys, which are no items
ItemsOf(content) == IF IsList(content) THEN content.l ELSE <<>>

RepoRootKey == <<"r">>

ProjectRoot == <<"R">>

RepoRootOverride == <<"O">>

is_dir(path) == path \in {ProjectRoot, RepoRootOverride}

\* var.split('=', 1)
SplitEq(var) ==
    LET i == CHOOSE j \in 1..Len(var) : var[j] = "=" /\ \A k \in 1..(j - 1) : var[k] # "="
    IN  [key_path |-> SubSeq(var, 1, i - 1), value_str |-> SubSeq(var, i + 1, Len(var))]

HasEq(var) == \E j \in 1..Len(var) : var[j] = "="

\* one file of configs/ merged into namespaced_contexts
MergeProjectFile(file, namespaced_contexts) ==
    LET current_ns_context ==
            IF Has(namespaced_contexts, file.prefix) THEN namespaced_contexts.d[file.prefix]
            ELSE EmptyDict
        content == file.content
    IN  IF IsDict(content) /\ content = EmptyDict THEN namespaced_contexts
        ELSE IF IsList(content) /\ content.l = <<>> THEN namespaced_contexts
        ELSE IF IsDict(content)
        THEN Dict((file.prefix :> deep_merge_dicts(content, current_ns_context))
                  @@ namespaced_contexts.d)
        ELSE IF IsList(content)
        THEN Dict((file.prefix :> deep_merge_dicts(ListToDict(content.l), current_ns_context))
                  @@ namespaced_contexts.d)
        ELSE Dict((file.prefix :> current_ns_context) @@ namespaced_contexts.d)

RECURSIVE MergeProjectFiles(_, _)
MergeProjectFiles(files, namespaced_contexts) ==
    IF files = <<>> THEN namespaced_contexts
    ELSE MergeProjectFiles(Tail(files), MergeProjectFile(files[1], namespaced_contexts))

\* one -c file merged into namespaced_contexts
MergeConfigFile(file, namespaced_contexts) ==
    LET current_ns_context ==
            IF Has(namespaced_contexts, file.prefix) THEN namespaced_contexts.d[file.prefix]
            ELSE EmptyDict
    IN  Dict((file.prefix :> deep_merge_dicts(ListToDict(ItemsOf(file.content)), current_ns_context))
             @@ namespaced_contexts.d)

\* final_context = {**global_context, **namespaced_contexts}, then repo_root
MergedContext(global_context, namespaced_contexts, repo_root_override) ==
    LET both == Dict(namespaced_contexts.d @@ global_context.d)
        overridden == IF repo_root_override
                      THEN Dict((RepoRootKey :> Str(RepoRootOverride)) @@ both.d) ELSE both
    IN  IF Has(overridden, RepoRootKey) THEN overridden
        ELSE Dict((RepoRootKey :> Str(ProjectRoot)) @@ overridden.d)

\* the files and options of one invocation
MaxFiles == 2

MaxSetVars == 2

NsFile(prefix, content) == [prefix |-> prefix, content |-> content]

Entry(name, text) == Dict(name :> Str(text))

\* config.yaml of the project
ProjectConfigs ==
    { Entry(<<"a">>, <<"1">>),
      Dict((<<"a">> :> Str(<<"1">>)) @@ (RepoRootKey :> Str(<<"X">>))),
      Dict(<<"a">> :> Entry(<<"l">>, <<"1">>)) }

\* configs/N.yaml of the project, in the mapping and in the list format
ProjectDirs ==
    { <<NsFile(<<"N">>, Entry(<<"l">>, <<"1">>))>>,
      <<NsFile(<<"N">>, List(<<Entry(<<"l">>, <<"1">>), Entry(<<"h">>, <<"1">>)>>))>> }

\* -g files
GlobalFilePool ==
    { Entry(<<"a">>, <<"2">>),
      Dict(<<"a">> :> Entry(<<"h">>, <<"2">>)),
      Entry(<<"N">>, <<"2">>) }

\* -c files
ConfigFileLists ==
    { <<>>, <<NsFile(<<"N">>, List(<<Entry(<<"l">>, <<"5">>)>>))>> }

\* --set arguments
SetVarPool ==
    { <<"a", "=", "3">>,
      <<"N", ".", "l", "=", "3">>,
      <<"a", ".", "l", "=", "4">>,
      <<"b", "a", "d">> }

SeqsUpTo(S, n) == UNION {[1..m -> S] : m \in 0..n}

LoaderInputs ==
    [no_project_config : BOOLEAN,
     project_config : ProjectConfigs,
     project_dir : ProjectDirs,
     global_config_paths : SeqsUpTo(GlobalFilePool, MaxFiles),
     config_paths : ConfigFileLists,
     repo_root_override : BOOLEAN,
     set_vars : SeqsUpTo(SetVarPool, MaxSetVars)]

InitLoad ==
    /\ \E in \in LoaderInputs :
        loader = [in |-> in, global_context |-> EmptyDict, namespaced_contexts |-> EmptyDict,
                  merged |-> EmptyDict, g |-> 0, c |-> 0, s |-> 0]
    /\ raw_context = EmptyDict
    /\ repo_root = FALSE
    /\ template = <<>>
    /\ scope = <<>>
    /\ pc = "load"
    /\ accessed_paths = {}
    /\ required_vars = {}
    /\ nodes = <<>>
    /\ plan = <<>>
    /\ error = <<>>
    /\ final_context = EmptyDict
    /\ step = 0
    /\ pv_calls = <<>>
    /\ shell_runs = <<>>
    /\ file_reads = <<>>
    /\ writes = <<>>
    /\ render_reads = {}
    /\ probe = <<>>

NotLoader == <<template, scope, accessed_paths, required_vars, nodes, plan, error,
               final_context, step, history, probe>>

\* config.yaml and configs/*.yaml of the project, unless disabled
LoadProject ==
    /\ pc = "load"
    /\ loader' = IF loader.in.no_project_config THEN loader
                 ELSE [loader EXCEPT
                         !.global_context = loader.in.project_config,
                         !.namespaced_contexts = MergeProjectFiles(loader.in.project_dir, EmptyDict)]
    /\ pc' = "overrides"
    /\ UNCHANGED <<raw_context, repo_root, NotLoader>>

\* the next -g file
ApplyGlobalFile ==
    /\ pc = "overrides"
    /\ loader.g < Len(loader.in.global_config_paths)
    /\ loader' = [loader EXCEPT
                    !.g = loader.g + 1,
                    !.global_context = deep_merge_dicts(loader.in.global_config_paths[loader.g + 1],
                                                        loader.global_context)]
    /\ UNCHANGED <<raw_context, repo_root, pc, NotLoader>>

\* the next -c file
ApplyConfigFile ==
    /\ pc = "overrides"
    /\ loader.g = Len(loader.in.global_config_paths)
    /\ loader.c < Len(loader.in.config_paths)
    /\ loader' = [loader EXCEPT
                    !.c = loader.c + 1,
                    !.namespaced_contexts = MergeConfigFile(loader.in.config_paths[loader.c + 1],
                                                            loader.namespaced_contexts)]
    /\ UNCHANGED <<raw_context, repo_root, pc, NotLoader>>

\* the two contexts merged, repo_root settled
MergeContexts ==
    /\ pc = "overrides"
    /\ loader.g = Len(loader.in.global_config_paths)
    /\ loader.c = Len(loader.in.config_paths)
    /\ LET merged == MergedContext(loader.global_context, loader.namespaced_contexts,
                                   loader.in.repo_root_override)
       IN  /\ raw_context' = merged
           /\ loader' = [loader EXCEPT !.merged = merged]
           /\ repo_root' = is_dir(merged.d[RepoRootKey].s)
    /\ pc' = "set"
    /\ UNCHANGED NotLoader

\* the next --set argument
ApplySetVar ==
    /\ pc = "set"
    /\ loader.s < Len(loader.in.set_vars)
    /\ LET var == loader.in.set_vars[loader.s + 1]
       IN  raw_context' = IF ~HasEq(var) THEN raw_context
                          ELSE set_nested_key(raw_context, SplitEq(var).key_path,
                                              Str(SplitEq(var).value_str))
    /\ loader' = [loader EXCEPT !.s = loader.s + 1]
    /\ UNCHANGED <<repo_root, pc, NotLoader>>

\* the merged raw document is complete
Loaded ==
    /\ pc = "set"
    /\ loader.s = Len(loader.in.set_vars)
    /\ pc' = "loaded"
    /\ UNCHANGED <<raw_context, repo_root, loader, NotLoader>>

NextLoad ==
    \/ LoadProject \/ ApplyGlobalFile \/ ApplyConfigFile \/ MergeContexts
    \/ ApplySetVar \/ Loaded

SpecLoad == InitLoad /\ [][NextLoad]_vars

(***************************************************************************)
(* The pruning step on its own, over any set of accessed paths.            *)
(***************************************************************************)
PathPool ==
    { <<"a">>, <<"a", "b">>, <<"a", ".", "b">>, <<"a", ".", "b", ".", "c">>,
      <<"a", ".", "c">>, <<"N">>, <<"N", ".", "l">> }

InitPrune ==
    /\ accessed_paths \in SUBSET PathPool
    /\ raw_context = EmptyDict
    /\ repo_root = FALSE
    /\ template = <<>>
    /\ scope = <<>>
    /\ pc = "prune"
    /\ required_vars = {}
    /\ nodes = <<>>
    /\ plan = <<>>
    /\ error = <<>>
    /\ final_context = EmptyDict
    /\ step = 0
    /\ pv_calls = <<>>
    /\ shell_runs = <<>>
    /\ file_reads = <<>>
    /\ writes = <<>>
    /\ render_reads = {}
    /\ loader = <<>>
    /\ probe = <<>>

NextPrune == Prune

SpecPrune == InitPrune /\ [][NextPrune]_vars

(***************************************************************************)
(* DependencyGraph.build on its own, over documents in which an identifier *)
(* can match a sibling, a top-level key and a namespace at once.           *)
(***************************************************************************)
BuildPaths ==
    { <<"N", ".", "c">>, <<"N", ".", "M">>, <<"N", ".", "l">>, <<"c">>, <<"M", ".", "h">> }

BuildPool ==
    { T(<<"s">>),
      T(<<"$", "{", "{", "c", "}", "}">>),
      T(<<"{", "{", "M", "}", "}">>),
      T(<<"$", "{", "{", "M", ".", "h", "}", "}", "{", "{", "z", "}", "}">>),
      T(<<"$", "{", "{", "c">>),
      Scalar(<<"7">>) }

InitBuild ==
    /\ raw_context \in Docs(BuildPaths, BuildPool)
    /\ repo_root = TRUE
    /\ template = <<>>
    /\ scope = <<>>
    /\ pc = "build"
    /\ accessed_paths = {}
    /\ required_vars = {}
    /\ nodes = <<>>
    /\ plan = <<>>
    /\ error = <<>>
    /\ final_context = EmptyDict
    /\ step = 0
    /\ pv_calls = <<>>
    /\ shell_runs = <<>>
    /\ file_reads = <<>>
    /\ writes = <<>>
    /\ render_reads = {}
    /\ loader = <<>>
    /\ probe = <<>>

NextBuild == BuildGraph

SpecBuild == InitBuild /\ [][NextBuild]_vars

(***************************************************************************)
(* tracker.py on its own: a chain of key and member accesses evaluated on  *)
(* create_tracking_context(raw_context), one access per step.              *)
(***************************************************************************)
TrackPaths == {<<"c">>, <<"N", ".", "l">>, <<"N", ".", "s", ".", "h">>, <<"N", ".", "s", ".", "l">>}

TrackPool == {T(<<"s">>), T(<<"$", "!", "t">>), Scalar(<<"7">>)}

TrackNames == {<<"N">>, <<"s">>, <<"h">>, <<"c">>, <<"z">>}

MaxChain == 3

InitTrack ==
    /\ raw_context \in Docs(TrackPaths, TrackPool)
    /\ \E chain \in UNION {[1..n -> TrackNames] : n \in 1..MaxChain} :
        probe = [obj |-> TD(<<>>, raw_context), chain |-> chain, i |-> 0, log |-> <<>>]
    /\ repo_root = TRUE
    /\ template = <<>>
    /\ scope = <<>>
    /\ pc = "track"
    /\ accessed_paths = {}
    /\ required_vars = {}
    /\ nodes = <<>>
    /\ plan = <<>>
    /\ error = <<>>
    /\ final_context = EmptyDict
    /\ step = 0
    /\ pv_calls = <<>>
    /\ shell_runs = <<>>
    /\ file_reads = <<>>
    /\ writes = <<>>
    /\ render_reads = {}
    /\ loader = <<>>

NotProbe == <<raw_context, template, scope, repo_root, loader, required_vars, nodes, plan,
              error, final_context, step, history>>

\* the next access of the chain, on the object obj
Access(kind) ==
    /\ pc = "track"
    /\ probe.i < Len(probe.chain)
    /\ probe.obj.o = kind
    /\ LET name == probe.chain[probe.i + 1]
           r == ProbeGetattr(probe.obj, name)
       IN  /\ accessed_paths' = accessed_paths \cup r.rec
           /\ probe' = [probe EXCEPT
                          !.obj = r.obj, !.i = probe.i + 1,
                          !.log = Append(probe.log, [on |-> probe.obj, name |-> name, got |-> r.obj])]
    /\ UNCHANGED <<pc, NotProbe>>

\* TrackingDict.__getitem__(key)
TrackingDictGetitem == Access("td")

\* MagicDummy.__getattr__(name), MagicDummy.__getitem__(key)
MagicDummyGetattr == Access("dummy")

\* the chain is used up, or it has come to a literal, which has no members
ChainEnds ==
    /\ pc = "track"
    /\ probe.i = Len(probe.chain) \/ probe.obj.o \in {"lit", "undef"}
    /\ pc' = "tracked"
    /\ UNCHANGED <<accessed_paths, probe, NotProbe>>

NextTrack == TrackingDictGetitem \/ MagicDummyGetattr \/ ChainEnds

SpecTrack == InitTrack /\ [][NextTrack]_vars

(***************************************************************************)
(* Properties.                                                             *)
(***************************************************************************)
\* the text holds '{{' or '}}' somewhere
HoldsDelimiterSequence(s) ==
    \E i \in 1..(Len(s) - 1) :
        (s[i] = "{" /\ s[i + 1] = "{") \/ (s[i] = "}" /\ s[i + 1] = "}")

RelevantKeys == _get_required_subgraph(nodes, required_vars)

Planned == pc \in {"execute", "done"}

Evaluated == {pv_calls[i].key : i \in 1..Len(pv_calls)}

LeavesUnder(ns) == {k \in DOMAIN nodes : startswith(k, ns \o <<".">>)}

\* C1: in every plan returned by get_execution_plan each node comes after every one
\* of its dependencies that is in the relevant set
C1_PlanRespectsDependencies ==
    Planned =>
        \A i \in 1..Len(plan) : \A d \in nodes[plan[i]].dependencies :
            d \in RelevantKeys => \E j \in 1..(i - 1) : plan[j] = d

\* a plan of three nodes, each depending on the one before
C1_Witness ==
    /\ Planned /\ Len(plan) = 3
    /\ nodes[plan[2]].dependencies = {plan[1]}
    /\ nodes[plan[3]].dependencies = {plan[2]}

\* C2: during execute every key path of the plan is written once, by the step of its
\* own node; process_value is called once per node, in plan order; the key paths no
\* step has reached yet, and those outside the plan, still hold their raw values
C2_EachKeyWrittenOnceByItsStep ==
    /\ Len(pv_calls) = step /\ Len(writes) = step
    /\ \A i, j \in 1..Len(plan) : i # j => plan[i] # plan[j]
    /\ \A i \in 1..step :
        /\ pv_calls[i].key = plan[i]
        /\ writes[i] = plan[i]
        /\ get_nested_key(final_context, plan[i]) = pv_calls[i].result
    /\ Planned =>
        \A k \in DOMAIN nodes :
            (\A i \in 1..step : plan[i] # k) => get_nested_key(final_context, k) = nodes[k].raw_value

\* execute has returned after three steps, one of them on a key inside a namespace
\* whose value it changed
C2_Witness ==
    /\ pc = "done" /\ step = 3
    /\ \E i \in 1..3 :
        /\ startswith(plan[i], <<"N", ".">>)
        /\ pv_calls[i].result # nodes[plan[i]].raw_value

LazyDoc ==
    DocFrom((<<"N", ".", "l">> :> T(<<"s">>)) @@ (<<"N", ".", "h">> :> T(<<"$", "!", "t">>)),
            <<<<"N", ".", "l">>, <<"N", ".", "h">>>>)

ReadsOnlyLight == template = <<"{", "{", "N", ".", "l", "}", "}">>

\* C3: laziness.  For {N: {l: 's', h: '$!t'}} and a template reading only N.l the
\* pipeline resolves N.l to 's', never hands N.h to process_value and runs no
\* command; in general no node outside the relevant set is evaluated
C3_Laziness ==
    /\ \A i \in 1..Len(pv_calls) : pv_calls[i].key \in RelevantKeys
    /\ (nodes = build(LazyDoc) /\ ReadsOnlyLight) =>
        /\ <<"N", ".", "h">> \notin Evaluated
        /\ shell_runs = <<>>
        /\ pc \notin {"aborted"}
        /\ pc = "done" => get_nested_key(final_context, <<"N", ".", "l">>) = T(<<"s">>)

\* the run on the laziness document has finished, N.l evaluated, N.h left raw
C3_Witness ==
    /\ pc = "done" /\ nodes = build(LazyDoc) /\ ReadsOnlyLight
    /\ Evaluated = {<<"N", ".", "l">>}
    /\ get_nested_key(final_context, <<"N", ".", "h">>) = T(<<"$", "!", "t">>)

\* the graph keys the consumer template reads in the final render, through its scope
ConsumerReads ==
    LET ast == parse(template)
    IN  IF ~ast.ok THEN {}
        ELSE {k \in DOMAIN nodes :
                \E i \in 1..Len(ast.parts) :
                    /\ ast.parts[i].k = "expr"
                    /\ LET at == ExprReadPath(ast.parts[i].path, final_context, scope)
                       IN  at # <<>> /\ (k = at \/ startswith(k, at \o <<".">>))}

\* a command or file directive, with or without the '$' marker
IsDirective(raw) ==
    /\ IsStr(raw)
    /\ \/ startswith(TemplateSrc(raw), <<"!">>)
       \/ startswith(TemplateSrc(raw), <<"@">>)
       \/ startswith(TemplateSrc(raw), <<"F">>)

\* C4: a command or file directive is run only if the consumer template reads its key
\* (directly or through its namespace) or another evaluated node's template
\* substitutes its value.  Stated for runs in which the consumer template accesses
\* some path: with no accessed path at all the whole document is evaluated
C4_OnlyConsumedDirectivesRun ==
    (pc = "done" /\ accessed_paths # {}) =>
        \A i \in 1..Len(pv_calls) :
            (/\ IsDirective(nodes[pv_calls[i].key].raw_value)
             /\ (pv_calls[i].shell # <<>> \/ pv_calls[i].reads # <<>>))
            => \/ pv_calls[i].key \in ConsumerReads
               \/ \E r \in render_reads : r.key = pv_calls[i].key /\ r.node # r.key

NsName == <<"N">>

ChildAccessed == \E p \in accessed_paths : startswith(p, NsName \o <<".">>)

AllOfNsEvaluated ==
    /\ LeavesUnder(NsName) \subseteq Range(plan)
    /\ LeavesUnder(NsName) \subseteq Evaluated

\* C5 as claimed: whenever the bare namespace N is among the accessed paths, every
\* leaf N.* is in the plan and evaluated, whatever else was accessed
C5_ParentNeverSuppressesChildren ==
    (pc = "done" /\ NsName \in accessed_paths) => AllOfNsEvaluated

\* C5 as amended: when N is accessed and no accessed path lies under N, every leaf
\* N.* is in the compiled plan and evaluated
C5_UnprunedParentSelectsAllChildren ==
    (pc = "done" /\ NsName \in accessed_paths /\ ~ChildAccessed) => AllOfNsEvaluated

\* N accessed beside another path, no path under N: both leaves of N evaluated
C5_Witness ==
    /\ pc = "done" /\ NsName \in accessed_paths /\ ~ChildAccessed
    /\ Cardinality(accessed_paths) = 2
    /\ Cardinality(LeavesUnder(NsName)) = 2
    /\ shell_runs # <<>>

\* C6: when the bare namespace N is the only accessed path, every leaf under N is in
\* the plan and handed to process_value, and a '$!' leaf has its command run (the
\* rendered text being a command); on {N: {l: 's', h: '$!t'}} the command t is run
C6_WholeObjectReadEvaluatesAll ==
    (pc = "done" /\ accessed_paths = {NsName}) =>
        /\ AllOfNsEvaluated
        /\ \A i \in 1..Len(pv_calls) :
            (/\ pv_calls[i].key \in LeavesUnder(NsName)
             /\ startswith(pv_calls[i].value.s, <<"!">>)
             /\ ~HoldsDelimiterSequence(pv_calls[i].value.s))
            => pv_calls[i].shell = <<Tail1(pv_calls[i].value.s)>>
        /\ nodes = build(LazyDoc) => shell_runs = <<<<"t">>>>

\* the whole-object read of the laziness document has run the heavy command
C6_Witness ==
    /\ pc = "done" /\ accessed_paths = {NsName} /\ nodes = build(LazyDoc)
    /\ <<"N", ".", "h">> \in Evaluated
    /\ shell_runs = <<<<"t">>>>

\* k2 depends on k1, directly or through other relevant keys
RECURSIVE DependsOn(_, _, _)
DependsOn(k2, k1, fuel) ==
    /\ fuel > 0
    /\ \E d \in nodes[k2].dependencies \cap RelevantKeys :
        d = k1 \/ DependsOn(d, k1, fuel - 1)

DependencyCycle ==
    \E k \in RelevantKeys : DependsOn(k, k, Cardinality(RelevantKeys))

NothingExecuted ==
    /\ plan = <<>> /\ step = 0 /\ final_context = EmptyDict
    /\ pv_calls = <<>> /\ writes = <<>> /\ shell_runs = <<>> /\ file_reads = <<>>

CycleDoc ==
    DocFrom((<<"a">> :> T(<<"$", "!", "{", "{", "b", "}", "}">>))
                @@ (<<"b">> :> T(<<"$", "{", "{", "a", "}", "}">>)),
            <<<<"a">>, <<"b">>>>)

\* C7: when the dependencies restricted to the relevant set hold a cycle,
\* get_execution_plan raises the cycle error, naming keys that each depend on the
\* one before and come back to the first, no plan is returned and nothing is
\* evaluated or written; a plan is returned only when there is no cycle, and one of
\* the two always happens.  For a = '$!{{b}}', b = '${{a}}' the error names a and b
C7_CycleAbortsBeforeEvaluation ==
    /\ Planned => ~DependencyCycle
    /\ pc = "plan" =>
        /\ DependencyCycle => (ENABLED CycleError /\ ~ENABLED CompilePlan)
        /\ ~DependencyCycle => (ENABLED CompilePlan /\ ~ENABLED CycleError)
    /\ pc = "aborted" =>
        /\ DependencyCycle
        /\ NothingExecuted
        /\ Len(error) >= 2 /\ error[1] = error[Len(error)]
        /\ \A i \in 1..(Len(error) - 1) :
            error[i] \in RelevantKeys /\ error[i] \in nodes[error[i + 1]].dependencies
        /\ nodes = build(CycleDoc) => Range(error) = {<<"a">>, <<"b">>}

\* the cycle error on a = '$!{{b}}', b = '${{a}}'
C7_Witness ==
    /\ pc = "aborted" /\ nodes = build(CycleDoc)
    /\ error = <<<<"a">>, <<"b">>, <<"a">>>>

\* C8: process_value on a string holding '{{' or '}}' returns it unchanged, reads no
\* file and runs no command, whatever prefix it starts with
C8_DelimiterGate ==
    \A i \in 1..Len(pv_calls) :
        (IsStr(pv_calls[i].value) /\ HoldsDelimiterSequence(pv_calls[i].value.s)) =>
            /\ pv_calls[i].result = pv_calls[i].value
            /\ pv_calls[i].shell = <<>>
            /\ pv_calls[i].reads = <<>>

\* a command text that ends with a closing delimiter was handed in and came back
C8_Witness ==
    /\ Len(pv_calls) = 1
    /\ pv_calls[1].value = Str(<<"!", "t", "}", "}">>)
    /\ pv_calls[1].result = pv_calls[1].value

KeyA == <<"a">>

KeyB == <<"b">>

KeyC == <<"c">>

FreeVars(raw) == find_undeclared_variables(parse(TemplateSrc(raw)))

\* a static, b = '$..{{a}}..', c = '$!..{{b}}..'
IsChain ==
    /\ {KeyA, KeyB, KeyC} \subseteq DOMAIN nodes
    /\ ~IsMarked(nodes[KeyA].raw_value)
    /\ IsMarked(nodes[KeyB].raw_value) /\ FreeVars(nodes[KeyB].raw_value) = {KeyA}
    /\ startswith(nodes[KeyC].raw_value.s, <<"$", "!">>)
    /\ FreeVars(nodes[KeyC].raw_value) = {KeyB}

\* index of the call of process_value for a key (0: none)
CallIndex(k) ==
    IF k \in Evaluated THEN CHOOSE i \in 1..Len(pv_calls) : pv_calls[i].key = k ELSE 0

BResolvedBeforeC ==
    (IsChain /\ KeyC \in Evaluated) =>
        /\ CallIndex(KeyB) > 0 /\ CallIndex(KeyB) < CallIndex(KeyC)
        /\ \A r \in render_reads : (r.node = KeyC /\ r.key = KeyB) => r.done

NoTemplateReachesShell == \A i \in 1..Len(shell_runs) : ~HoldsDelimiterSequence(shell_runs[i])

DirectiveOutputsClean ==
    \A i \in 1..Len(pv_calls) :
        (pv_calls[i].shell # <<>> \/ pv_calls[i].reads # <<>>) => ~HoldsDelimiterSequence(pv_calls[i].result.s)

C10_TemplateReadsOnlyResolvedKeys ==
    \A r \in render_reads : r.node = r.key \/ r.done \/ ~IsMarked(r.raw)

\* the document the graph was built from
OriginalDoc == DocFrom([k \in DOMAIN nodes |-> nodes[k].raw_value], SetToSeq(DOMAIN nodes))

\* each directive's result as a fixed function of its text: every file holds 'o',
\* every command prints 'o'
FixedIO(value) ==
    LET pv == process_value(<<>>, value, repo_root, NoIO)
    IN  IF pv.reads # <<>> \/ pv.shell # <<>> THEN IO("ok", <<"o">>) ELSE NoIO

FixedIOConsistent ==
    \A i \in 1..Len(pv_calls) :
        pv_calls[i].result =
            process_value(pv_calls[i].key, pv_calls[i].value, repo_root,
                          FixedIO(pv_calls[i].value)).result

\* PlanExecutor.execute along plan p from step i on, under the fixed answers
RECURSIVE RunPlan(_, _, _)
RunPlan(p, i, context) ==
    IF i > Len(p) THEN context
    ELSE LET node == nodes[p[i]]
         IN  RunPlan(p, i + 1,
                     ExecuteNode(node, context, repo_root,
                                 FixedIO(ValueToProcess(node, context))).context)

ReferenceOrder == CHOOSE p \in StaticOrders(nodes, RelevantKeys) : TRUE

\* C11: with each directive's result a fixed function of its text, a finished run
\* ends in the same final context as the run of the same document and requirement
\* set along any other order the sorter can emit (here the reference order)
C11_FinalContextIndependentOfOrder ==
    (pc = "done" /\ FixedIOConsistent) =>
        final_context = RunPlan(ReferenceOrder, 1, OriginalDoc)

\* C12: no failure inside process_value unwinds: process_value never raises, and
\* execute evaluates and writes every node of the plan before it returns
C12_FailuresNeverUnwind ==
    /\ pc \notin {"crashed", "raised"}
    /\ pc = "done" => (step = Len(plan) /\ Range(plan) \subseteq Evaluated)

\* the text without its leading slashes
RECURSIVE StripLeadingSlashes(_)
StripLeadingSlashes(s) ==
    IF s # <<>> /\ Head(s) = "/" THEN StripLeadingSlashes(Tail(s)) ELSE s

FirstIs(s, ch) == s # <<>> /\ s[1] = ch

\* C13: process_value on '@path' without repo_root returns the error placeholder and
\* reads no file; with repo_root it reads repo_root joined with the path stripped of
\* its leading slashes; a 'file://' URI is read whether or not repo_root is set,
\* and the same file either way
C13_RepoRootAndFileUri ==
    \A i \in 1..Len(pv_calls) :
        LET c == pv_calls[i]
            plain == IsStr(c.value) /\ ~HoldsDelimiterSequence(c.value.s)
        IN  /\ (plain /\ FirstIs(c.value.s, "@") /\ ~repo_root) =>
                    (c.result = Str(ErrNoRepoRoot) /\ c.reads = <<>> /\ c.shell = <<>>)
            /\ (plain /\ FirstIs(c.value.s, "@") /\ repo_root) =>
                    /\ c.reads = << <<"R", "/">> \o StripLeadingSlashes(Tail(c.value.s)) >>
                    /\ c.shell = <<>>
            /\ (plain /\ FirstIs(c.value.s, "F")) =>
                    /\ Len(c.reads) = 1 /\ c.shell = <<>>
                    /\ c.reads = process_value(c.key, c.value, ~repo_root, NoIO).reads

\* '@//t' with repo_root set: the file R/t was read
C13_Witness ==
    /\ Len(pv_calls) = 1 /\ repo_root
    /\ pv_calls[1].value = Str(<<"@", "/", "/", "t">>)
    /\ pv_calls[1].reads = << <<"R", "/", "t">> >>
    /\ pv_calls[1].result = Str(<<"o">>)

\* C14: a string without the leading '$' is not rendered: the executor hands it to
\* process_value as it is and reads no key for it, and the result becomes the key's
\* value; when it starts with '!' (no delimiter in it) the rest is run as a command
\* and an output the command prints is the value
C14_UnmarkedValuesAreNotRendered ==
    \A i \in 1..Len(pv_calls) :
        LET c == pv_calls[i]
            raw == nodes[c.key].raw_value
        IN  (IsStr(raw) /\ ~FirstIs(raw.s, "$")) =>
                /\ c.value = raw
                /\ \A r \in render_reads : r.node # c.key
                /\ get_nested_key(final_context, c.key) = c.result
                /\ (FirstIs(raw.s, "!") /\ ~HoldsDelimiterSequence(raw.s)) =>
                        c.shell = <<Tail(raw.s)>>
                /\ (FirstIs(raw.s, "@") \/ FirstIs(raw.s, "F")) => c.shell = <<>>

\* a = '!t' has been run directly and its output is a's value; another key holds
\* unmarked text with delimiters, handed over as it is
C14_Witness ==
    /\ pc = "done"
    /\ \E i \in 1..Len(pv_calls) :
        /\ pv_calls[i].key = KeyA
        /\ nodes[KeyA].raw_value = T(<<"!", "t">>)
        /\ pv_calls[i].shell = <<<<"t">>>>
        /\ get_nested_key(final_context, KeyA) = T(<<"o">>)
    /\ \E i \in 1..Len(pv_calls) :
        pv_calls[i].value = T(<<"{", "{", "z", "}", "}">>)

\* the lookups the dry run makes below the object obj for path[i..]: how the key was
\* looked up, whether it was missing, the value stored under it and the object got
RECURSIVE ProbeTrace(_, _, _)
ProbeTrace(obj, path, i) ==
    IF i > Len(path) THEN {}
    ELSE LET r == ProbeGetattr(obj, path[i])
             here == IF obj.o = "td"
                     THEN {[via |-> "getitem", missing |-> ~Has(obj.v, path[i]),
                            stored |-> IF Has(obj.v, path[i]) THEN obj.v.d[path[i]] ELSE Undefined,
                            got |-> r.obj]}
                     ELSE {}
         IN  here \cup ProbeTrace(r.obj, path, i + 1)

\* what the render context of the dry run holds under a top-level name
TopStored(name) ==
    IF scope # <<>> /\ Has(raw_context, scope) /\ IsDict(raw_context.d[scope])
       /\ Has(raw_context.d[scope], name)
    THEN raw_context.d[scope].d[name]
    ELSE IF Has(raw_context, name) THEN raw_context.d[name] ELSE Undefined

\* every lookup of the dry run of the consumer template
DryRunLookups ==
    LET ast == parse(template)
    IN  IF ~ast.ok THEN {}
        ELSE UNION {LET path == ast.parts[i].path
                        root == ProbeRoot(raw_context, scope, path[1])
                    IN  {[via |-> "context", missing |-> TopStored(path[1]) = Undefined,
                          stored |-> TopStored(path[1]), got |-> root]}
                        \cup ProbeTrace(root, path, 2)
                    : i \in {j \in 1..Len(ast.parts) : ast.parts[j].k = "expr"}}

BeforeExecutor == pc \in {"discover", "prune", "build", "plan", "aborted"}

NoDirectiveBeforeExecutor ==
    BeforeExecutor => (pv_calls = <<>> /\ shell_runs = <<>> /\ file_reads = <<>> /\ writes = <<>>)

\* C15 as claimed: discovery calls process_value for nothing, reads no file and runs
\* no command, and every lookup of the dry run on a missing key or on a key holding
\* a '$' value yields a recording proxy
C15_DiscoveryYieldsProxies ==
    /\ NoDirectiveBeforeExecutor
    /\ pc \in {"prune", "build", "plan"} =>
        \A l \in DryRunLookups :
            (l.missing \/ IsMarked(l.stored)) => l.got.o = "dummy"

\* C15 as amended: the same for the lookups made through TrackingDict.__getitem__,
\* that is below a top-level mapping; a top-level name (or a name injected from the
\* scope) is read from a plain copy of the context and yields the stored value
C15_DiscoveryRunsNothing ==
    /\ NoDirectiveBeforeExecutor
    /\ pc \in {"prune", "build", "plan"} =>
        \A l \in DryRunLookups :
            /\ (l.via = "getitem" /\ (l.missing \/ IsMarked(l.stored))) => l.got.o = "dummy"
            /\ (l.via = "context" /\ ~IsDict(l.stored) /\ ~l.missing) => l.got = Literal(l.stored)

\* discovery is over, nothing has run; the dry run met a '$!' command below a
\* namespace and got a proxy for it
C15_Witness ==
    /\ pc = "plan" /\ pv_calls = <<>> /\ shell_runs = <<>>
    /\ \E l \in DryRunLookups :
        /\ l.via = "getitem" /\ l.stored = T(<<"$", "!", "t">>)
        /\ l.got.o = "dummy" /\ l.got.path \in accessed_paths

\* p is the key path q cut at one of its dots
DottedPrefix(p, q) == Len(p) < Len(q) /\ SubSeq(q, 1, Len(p) + 1) = p \o <<".">>

SetVarIsValid(i) == \E j \in 1..Len(loader.in.set_vars[i]) : loader.in.set_vars[i][j] = "="

SetKey(i) == SplitEq(loader.in.set_vars[i]).key_path

\* the --set argument i is the last one for its key and no other argument sets a
\* key above or below it
SetVarStandsAlone(i) ==
    \A j \in 1..Len(loader.in.set_vars) :
        (j # i /\ SetVarIsValid(j)) =>
            /\ ~DottedPrefix(SetKey(j), SetKey(i))
            /\ ~DottedPrefix(SetKey(i), SetKey(j))
            /\ SetKey(j) = SetKey(i) => j < i

SetWins ==
    \A i \in 1..Len(loader.in.set_vars) :
        (/\ SetVarIsValid(i) /\ SetVarStandsAlone(i)
         /\ get_nested_key(loader.merged, SetKey(i)) # Undefined)
        => get_nested_key(raw_context, SetKey(i)) = Str(SplitEq(loader.in.set_vars[i]).value_str)

\* the -g files that define the top-level key k
GlobalFilesWith(k) ==
    {g \in 1..Len(loader.in.global_config_paths) : Has(loader.in.global_config_paths[g], k)}

GlobalOverrideWins ==
    \A k \in {<<"a">>, <<"N">>} :
        (/\ GlobalFilesWith(k) # {}
         /\ ~Has(loader.namespaced_contexts, k)) =>
            LET g == CHOOSE x \in GlobalFilesWith(k) : \A y \in GlobalFilesWith(k) : y <= x
                v == loader.in.global_config_paths[g].d[k]
            IN  IF IsDict(v)
                THEN /\ Has(loader.merged, k) /\ IsDict(loader.merged.d[k])
                     /\ \A n \in DOMAIN v.d : Has(loader.merged.d[k], n) /\ loader.merged.d[k].d[n] = v.d[n]
                ELSE Has(loader.merged, k) /\ loader.merged.d[k] = v

\* the top-level keys the -g files, the -c files and the --set arguments give
KeysFromOverrides ==
    UNION {DOMAIN loader.in.global_config_paths[g].d : g \in 1..Len(loader.in.global_config_paths)}
    \cup {loader.in.config_paths[c].prefix : c \in 1..Len(loader.in.config_paths)}
    \cup {split(SetKey(i))[1] : i \in {j \in 1..Len(loader.in.set_vars) : SetVarIsValid(j)}}

NoProjectKeys ==
    loader.in.no_project_config =>
        /\ Has(raw_context, RepoRootKey)
        /\ DOMAIN raw_context.d \subseteq KeysFromOverrides \cup {RepoRootKey}
        /\ (~loader.in.repo_root_override /\ RepoRootKey \notin KeysFromOverrides) =>
                (raw_context.d[RepoRootKey] = Str(ProjectRoot) /\ repo_root)

\* C16: in the merged raw document, a --set key that a configuration file also
\* defines holds the --set value; a key of a -g file holds the value of the last
\* -g file that defines it, not config.yaml's (mappings merged entry by entry);
\* with the project configuration disabled only keys given by -g, -c or --set are
\* present, beside repo_root, which is defined
C16_LoaderPrecedence ==
    pc = "loaded" => (SetWins /\ GlobalOverrideWins /\ NoProjectKeys)

\* config.yaml gives a = '1', a -g file a = '2', --set N.l=3 over configs/N.yaml
C16_Witness ==
    /\ pc = "loaded" /\ ~loader.in.no_project_config
    /\ loader.in.project_config = Entry(<<"a">>, <<"1">>)
    /\ loader.in.global_config_paths = <<Entry(<<"a">>, <<"2">>)>>
    /\ loader.in.set_vars = <<<<"N", ".", "l", "=", "3">>>>
    /\ raw_context.d[<<"a">>] = Str(<<"2">>)
    /\ get_nested_key(raw_context, <<"N", ".", "l">>) = Str(<<"3">>)

Pruned == pc \notin {"discover", "prune", "load", "overrides", "set", "loaded", "call", "returned", "raised"}

\* C17: the pruning step removes the accessed path p if and only if another accessed
\* path is p, a dot, and more; siblings and paths that merely begin with the same
\* letters do not remove it, and nothing is added
C17_PrunedIffDottedParent ==
    Pruned =>
        /\ required_vars \subseteq accessed_paths
        /\ \A p \in accessed_paths :
            p \notin required_vars <=> \E q \in accessed_paths : DottedPrefix(p, q)

\* a, ab, a.b and a.c were accessed: a is removed as the parent of a.b; ab, which
\* only begins like a, and the siblings a.b and a.c stay
C17_Witness ==
    /\ pc = "build"
    /\ accessed_paths = {<<"a">>, <<"a", "b">>, <<"a", ".", "b">>, <<"a", ".", "c">>}
    /\ required_vars = {<<"a", "b">>, <<"a", ".", "b">>, <<"a", ".", "c">>}

Built == pc \in {"plan", "execute", "done", "aborted", "crashed"}

\* the keys the identifier v of a node in namespace ns stands for
ExpectedDeps(v, ns, keys) ==
    IF JoinKey(ns, v) \in keys THEN {JoinKey(ns, v)}
    ELSE IF v \in keys THEN {v}
    ELSE {k \in keys : DottedPrefix(v, k)}

\* C18: after build, the dependencies of a node are, for each free identifier v of
\* its template source: N.v alone if that is a key (N the node's namespace), else v
\* alone if that is a key, else every key that begins with 'v.', else nothing; a
\* value that is no string or whose source does not parse has no dependencies, and
\* the other nodes still get theirs
C18_FirstMatchingCategory ==
    Built =>
        \A k \in DOMAIN nodes :
            LET raw == nodes[k].raw_value
            IN  nodes[k].dependencies =
                    IF ~IsStr(raw) \/ ~parse(TemplateSrc(raw)).ok THEN {}
                    ELSE UNION {ExpectedDeps(v, nodes[k].namespace, DOMAIN nodes) : v \in FreeVars(raw)}

\* N.l = '${{c}}' depends on its sibling N.c alone although c is a key too, and
\* N.c, whose source does not parse, has no dependencies
C18_Witness ==
    /\ pc = "plan"
    /\ {<<"N", ".", "l">>, <<"N", ".", "c">>, <<"c">>} = DOMAIN nodes
    /\ nodes[<<"N", ".", "l">>].raw_value = T(<<"$", "{", "{", "c", "}", "}">>)
    /\ nodes[<<"N", ".", "l">>].dependencies = {<<"N", ".", "c">>}
    /\ nodes[<<"N", ".", "c">>].raw_value = T(<<"$", "{", "{", "c">>)
    /\ nodes[<<"N", ".", "c">>].dependencies = {}

\* q ends with a dot followed by r
DottedSuffix(q, r) ==
    Len(r) < Len(q) /\ SubSeq(q, Len(q) - Len(r), Len(q)) = <<".">> \o r

Seeds ==
    {k \in DOMAIN nodes :
        \E r \in required_vars : k = r \/ DottedPrefix(r, k) \/ DottedSuffix(k, r)}

\* there is a chain of at most fuel dependency edges from k1 to k2
RECURSIVE Leads(_, _, _)
Leads(k1, k2, fuel) ==
    /\ fuel > 0
    /\ \E d \in nodes[k1].dependencies : d = k2 \/ Leads(d, k2, fuel - 1)

ReachableFromSeeds ==
    {k \in DOMAIN nodes :
        k \in Seeds \/ \E sd \in Seeds : Leads(sd, k, Cardinality(DOMAIN nodes))}

\* C19: for a non-empty request set the relevant set is exactly the keys reachable
\* over dependency edges from the seeds (a key equal to a requested path, below it,
\* or ending with a dot and it): it holds the seeds, is closed under dependencies,
\* holds nothing else, and is what the plan is made of
C19_RelevantSetIsReachFromSeeds ==
    (Built /\ required_vars # {}) =>
        /\ RelevantKeys = ReachableFromSeeds
        /\ \A k \in RelevantKeys : nodes[k].dependencies \subseteq RelevantKeys
        /\ Planned => Range(plan) = ReachableFromSeeds

\* c was requested; b is reached from c and a from b, a being no seed
C19_Witness ==
    /\ pc = "done" /\ required_vars = {KeyC}
    /\ Seeds = {KeyC}
    /\ nodes[KeyC].dependencies = {KeyB} /\ nodes[KeyB].dependencies = {KeyA}
    /\ Range(plan) = {KeyA, KeyB, KeyC}

\* a command is handed to process_value and run
DirectiveRuns(i) ==
    (/\ IsStr(pv_calls[i].value) /\ FirstIs(pv_calls[i].value.s, "!")
     /\ ~HoldsDelimiterSequence(pv_calls[i].value.s))
    => pv_calls[i].shell = <<Tail(pv_calls[i].value.s)>>

\* C20: with no accessed path the relevant set is every graph key: a compiled plan
\* holds every node, and a finished run has handed every node to process_value and
\* run every command among them
C20_NothingAccessedEvaluatesAll ==
    (Built /\ accessed_paths = {}) =>
        /\ RelevantKeys = DOMAIN nodes
        /\ Planned => Range(plan) = DOMAIN nodes
        /\ pc = "done" =>
            /\ Evaluated = DOMAIN nodes
            /\ \A i \in 1..Len(pv_calls) : DirectiveRuns(i)

\* nothing accessed, three keys, all evaluated, the command among them run
C20_Witness ==
    /\ pc = "done" /\ accessed_paths = {} /\ required_vars = {}
    /\ Cardinality(DOMAIN nodes) = 3 /\ Evaluated = DOMAIN nodes
    /\ \E k \in DOMAIN nodes : nodes[k].raw_value = T(<<"$", "!", "t">>)
    /\ shell_runs = <<<<"t">>>>

\* the raw text of a node without its first character
MarkerStripped(k) == Str(SubSeq(nodes[k].raw_value.s, 2, Len(nodes[k].raw_value.s)))

\* C21: when rendering a '$' node's template raises, the value handed to
\* process_value is the marker-stripped source, the result is written at the node's
\* key path, the loop goes on, and a run that returns has executed every plan node
C21_RenderFailureFallsBackAndContinues ==
    \A i \in 1..Len(pv_calls) :
        pv_calls[i].failed =>
            /\ pv_calls[i].value = MarkerStripped(pv_calls[i].key)
            /\ get_nested_key(final_context, pv_calls[i].key) = pv_calls[i].result
            /\ pc \in {"execute", "done", "crashed"}
            /\ pc = "done" => \A j \in (i + 1)..Len(plan) : pv_calls[j].key = plan[j]

\* a template that does not parse was the first of three nodes; its source was handed
\* on and written, and the two nodes after it were executed
C21_Witness ==
    /\ pc = "done" /\ Len(plan) = 3 /\ Len(pv_calls) = 3
    /\ pv_calls[1].failed
    /\ pv_calls[1].value = Str(<<"{", "{", "a">>)
    /\ get_nested_key(final_context, pv_calls[1].key) = Str(<<"{", "{", "a">>)

\* C22: the fallback source of a node whose template failed to render reaches neither
\* the file system nor a shell: no file is read and no command is run for that node
C22_FallbackNeverReachesFileOrShell ==
    \A i \in 1..Len(pv_calls) :
        pv_calls[i].failed => (pv_calls[i].shell = <<>> /\ pv_calls[i].reads = <<>>)

\* the value found in a context by walking the segments of a key path
RECURSIVE Lookup(_, _)
Lookup(v, segments) ==
    IF segments = <<>> THEN v
    ELSE IF v.t = "dict" /\ Head(segments) \in DOMAIN v.d
    THEN Lookup(v.d[Head(segments)], Tail(segments))
    ELSE Undefined

Holds(k) == Lookup(final_context, split(k))

\* C23: after execute returns, a key path outside the plan holds its raw value, a key
\* path in the plan holds what process_value returned for its node, and a raw value
\* that is not a string is still there unchanged
C23_FinalContextFrame ==
    pc = "done" =>
        \A k \in DOMAIN nodes :
            /\ k \notin Range(plan) => Holds(k) = nodes[k].raw_value
            /\ k \in Range(plan) =>
                \E i \in 1..Len(pv_calls) : pv_calls[i].key = k /\ Holds(k) = pv_calls[i].result
            /\ ~IsStr(nodes[k].raw_value) => Holds(k) = nodes[k].raw_value

\* c was rendered from the number a; the command at b, outside the plan, is still raw
C23_Witness ==
    /\ pc = "done" /\ Range(plan) = {KeyA, KeyC} /\ DOMAIN nodes = {KeyA, KeyB, KeyC}
    /\ nodes[KeyA].raw_value = Scalar(<<"7">>) /\ Holds(KeyA) = Scalar(<<"7">>)
    /\ nodes[KeyB].raw_value = T(<<"$", "!", "t">>) /\ Holds(KeyB) = T(<<"$", "!", "t">>)
    /\ nodes[KeyC].raw_value = T(<<"$", "{", "{", "a", "}", "}">>) /\ Holds(KeyC) = T(<<"7">>)

\* C24: execute works on a copy: after it returns, the mapping passed as
\* initial_context is as it was, the entries of its nested mappings included
C24_InitialContextUnchanged ==
    pc = "done" => raw_context = OriginalDoc

\* the text before the first dot of a key path (<<>> when it has no dot)
RECURSIVE TopAncestor(_, _)
TopAncestor(k, i) ==
    IF i > Len(k) THEN <<>>
    ELSE IF k[i] = "." THEN SubSeq(k, 1, i - 1)
    ELSE TopAncestor(k, i + 1)

\* C25: a node built from a key nested under the top-level key K has namespace K, and
\* a node built from a root-level leaf has the empty namespace
C25_NamespaceIsTopLevelAncestor ==
    Built => \A k \in DOMAIN nodes : nodes[k].namespace = TopAncestor(k, 1)

\* prefix and key joined by a dot, the key alone under the empty prefix
Qualified(prefix, key) == IF Len(prefix) = 0 THEN key ELSE prefix \o <<".">> \o key

IsProxyFor(obj, path) == obj.o = "dummy" /\ obj.path = path

\* C26: a key lookup on a tracking mapping records the qualified path of the key and
\* returns the nested tracking mapping for a stored mapping, a proxy for a missing key
\* or a stored '$' string, the stored literal otherwise; an access on a proxy records
\* the extended path and returns a proxy for it
C26_LookupsRecordAndReturn ==
    probe # <<>> =>
        \A n \in 1..Len(probe.log) :
            LET e == probe.log[n]
                full == Qualified(e.on.path, e.name)
                present == e.on.o = "td" /\ e.name \in DOMAIN e.on.v.d
                stored == IF present THEN e.on.v.d[e.name] ELSE Undefined
            IN  /\ full \in accessed_paths
                /\ e.on.o = "dummy" => IsProxyFor(e.got, e.on.path \o <<".">> \o e.name)
                /\ e.on.o = "td" =>
                    IF ~present THEN IsProxyFor(e.got, full)
                    ELSE IF stored.t = "dict"
                    THEN e.got.o = "td" /\ e.got.path = full /\ e.got.v = stored
                    ELSE IF stored.t = "str" /\ FirstIs(stored.s, "$") THEN IsProxyFor(e.got, full)
                    ELSE e.got.o = "lit" /\ e.got.v = stored

\* N.s.h on a document where N.s.h is a command: two nested mappings, then a proxy
C26_Witness ==
    /\ pc = "tracked" /\ probe # <<>> /\ Len(probe.log) = 3
    /\ probe.log[1].got.o = "td" /\ probe.log[2].got.o = "td"
    /\ probe.log[3].got = MagicDummy(<<"N", ".", "s", ".", "h">>)
    /\ accessed_paths = {<<"N">>, <<"N", ".", "s">>, <<"N", ".", "s", ".", "h">>}

\* {N: {l: 's', h: '${{ N.l }}'}}: h refers to its sibling l by the qualified name
QualifiedSiblingDoc ==
    DocFrom((<<"N", ".", "l">> :> T(<<"s">>))
                @@ (<<"N", ".", "h">> :> T(<<"$", "{", "{", "N", ".", "l", "}", "}">>)),
            <<<<"N", ".", "l">>, <<"N", ".", "h">>>>)

\* C27: the cycle error is raised only for a genuine cycle of references: no node
\* lists its own key path among its dependencies, and the document in which N.h
\* refers to its sibling as N.l, which has no cycle, always compiles to a plan
C27_CycleErrorOnlyForGenuineCycles ==
    Built =>
        /\ \A k \in DOMAIN nodes : k \notin nodes[k].dependencies
        /\ nodes = build(QualifiedSiblingDoc) => pc # "aborted"

\* k lies on a cycle of dependency edges
OnCycle(k) == Leads(k, k, Cardinality(DOMAIN nodes))

CycleOutsideOnly ==
    /\ \E k \in DOMAIN nodes \ ReachableFromSeeds : OnCycle(k)
    /\ \A k \in ReachableFromSeeds : ~OnCycle(k)

\* C28: with a non-empty request set, a dependency cycle among keys that are all
\* outside the relevant set raises no cycle error and the plan holds the relevant
\* keys; the same document with an empty request set raises it and has no plan
C28_CycleOutsideRelevantSetIgnored ==
    (Built /\ \E k \in DOMAIN nodes : OnCycle(k)) =>
        /\ (required_vars # {} /\ CycleOutsideOnly) =>
            /\ pc # "aborted"
            /\ Planned => Range(plan) = ReachableFromSeeds
        /\ required_vars = {} => pc \in {"plan", "aborted"}

\* c was requested and resolved while a and b, outside the plan, depend on each other
C28_Witness ==
    /\ pc = "done" /\ required_vars = {KeyC} /\ plan = <<KeyC>>
    /\ DOMAIN nodes = {KeyA, KeyB, KeyC}
    /\ nodes[KeyA].dependencies = {KeyB} /\ nodes[KeyB].dependencies = {KeyA}
    /\ CycleOutsideOnly

\* the relevant set as the pruner is meant to produce it
ExpectedRelevant == IF required_vars = {} THEN DOMAIN nodes ELSE ReachableFromSeeds

\* position of a key in the plan (0: not in it)
PlanIndex(k) == IF k \in Range(plan) THEN CHOOSE i \in 1..Len(plan) : plan[i] = k ELSE 0

\* C29: after build every dependency is an existing graph key and the relevant set is
\* closed under dependencies, so restricting a relevant node's dependencies to the
\* relevant set drops none of them; a plan is a permutation of the relevant set in
\* which every node comes after all of its dependencies
C29_PlanOrdersAllDependencies ==
    Built =>
        /\ \A k \in DOMAIN nodes : nodes[k].dependencies \subseteq DOMAIN nodes
        /\ RelevantKeys = ExpectedRelevant
        /\ \A k \in ExpectedRelevant :
            /\ nodes[k].dependencies \subseteq ExpectedRelevant
            /\ {d \in nodes[k].dependencies : d \in RelevantKeys} = nodes[k].dependencies
        /\ Planned =>
            /\ Len(plan) = Cardinality(ExpectedRelevant)
            /\ Range(plan) = ExpectedRelevant
            /\ \A k \in Range(plan) : \A d \in nodes[k].dependencies :
                PlanIndex(d) > 0 /\ PlanIndex(d) < PlanIndex(k)

\* N.l was requested; its dependency N.h, found by the walk only, comes first in the
\* plan and the third key is left out
C29_Witness ==
    /\ Planned /\ required_vars = {<<"N", ".", "l">>}
    /\ plan = <<<<"N", ".", "h">>, <<"N", ".", "l">>>>
    /\ nodes[<<"N", ".", "l">>].dependencies = {<<"N", ".", "h">>}
    /\ Cardinality(DOMAIN nodes) = 3

\* call j read a file or ran a command
Produced(j) == pv_calls[j].shell # <<>> \/ pv_calls[j].reads # <<>>

\* the text handed over at call i is the output of the earlier call j, put there by
\* the template of i's node, which depends on j's node
SubstitutedFrom(i, j) ==
    /\ j < i /\ Produced(j)
    /\ pv_calls[j].key \in nodes[pv_calls[i].key].dependencies
    /\ IsMarked(nodes[pv_calls[i].key].raw_value)
    /\ HoldsDelimiterSequence(nodes[pv_calls[i].key].raw_value.s)
    /\ pv_calls[i].value = pv_calls[j].result

\* C30 as claimed: the text of a file or the output of a command is only stored or substituted:
\* a node whose template substitutes it hands it to process_value without any file
\* being read or any command being run for it
C30_OutputsAreNeverDirectives ==
    \A i \in 1..Len(pv_calls) : \A j \in 1..Len(pv_calls) :
        SubstitutedFrom(i, j) => (pv_calls[i].shell = <<>> /\ pv_calls[i].reads = <<>>)

\* the texts a file read or a command can come back with
DirectiveResults ==
    {Str(a.text) : a \in {x \in FileAnswers \cup ShellAnswers : x.kind = "ok"}}
    \cup {Str(ErrFileNotFound), Str(ErrCommandFailed), Str(ExceptionText)}

\* C30 as amended: the text a file read or a command comes back with is stored as the
\* node's value and not interpreted again in the node that produced it (one read or
\* one command per call, nothing run outside the calls); a dependent node whose
\* rendered text is such an output beginning with '!' and holding no delimiter has it
\* run as a command
C30_OutputsStoredAsTextInProducer ==
    /\ \A i \in 1..Len(pv_calls) :
        Produced(i) =>
            /\ Len(pv_calls[i].shell) + Len(pv_calls[i].reads) = 1
            /\ pv_calls[i].result \in DirectiveResults
            /\ Holds(pv_calls[i].key) = pv_calls[i].result
    /\ Len(shell_runs) = Cardinality({i \in 1..Len(pv_calls) : pv_calls[i].shell # <<>>})
    /\ Len(file_reads) = Cardinality({i \in 1..Len(pv_calls) : pv_calls[i].reads # <<>>})
    /\ \A i \in 1..Len(pv_calls) : \A j \in 1..Len(pv_calls) :
        (/\ SubstitutedFrom(i, j) /\ FirstIs(pv_calls[i].value.s, "!")
         /\ ~HoldsDelimiterSequence(pv_calls[i].value.s))
        => pv_calls[i].shell = <<SubSeq(pv_calls[i].value.s, 2, Len(pv_calls[i].value.s))>>

\* a's command printed '!t', which is stored at a; the node substituting a ran t
C30_Witness ==
    /\ pc = "done" /\ Len(pv_calls) >= 2
    /\ \E i \in 1..Len(pv_calls) : \E j \in 1..Len(pv_calls) :
        /\ SubstitutedFrom(i, j)
        /\ pv_calls[j].result = Str(<<"!", "t">>) /\ Holds(pv_calls[j].key) = Str(<<"!", "t">>)
        /\ pv_calls[j].shell = <<<<"t">>>>
        /\ pv_calls[i].shell = <<<<"t">>>>

====
